---- MODULE Spec2Model ----
(***************************************************************************)
(* A model of the REST API of this repository: the in-memory users/items   *)
(* catalogue (routers/users.py, routers/items.py) and the relational       *)
(* insider-trading API (routers/companies.py, insiders.py,                 *)
(* transactions.py over the tables of models/database_models.py).          *)
(*                                                                         *)
(* Representation.                                                         *)
(*  - A str is a sequence of one-character strings, so that lower(),       *)
(*    "in" and LIKE are computed and not assumed.                          *)
(*  - An Optional[T] is the set {} (None / NULL) or {v}.                   *)
(*  - A float amount (price, market_cap, total_value) is an integer number *)
(*    of its smallest unit.                                                *)
(*  - A datetime is day * TicksPerDay + tick, a date is a day.             *)
(*  - A table or an in-memory list is a sequence of records, in insertion  *)
(*    (rowid) order.  created_at and description are never read by a       *)
(*    handler and are left out of the records.                             *)
(*  - A handler is one atomic action: it reads its parameters, computes    *)
(*    the response and writes the store.  req and resp hold the request    *)
(*    being answered; Deliver hands the response to the client, after      *)
(*    which the next request is served.                                    *)
(*  - issued is a history variable: no handler reads it.                   *)
(*  - Requests in flight at once are tasks.  The handlers are coroutines    *)
(*    without a suspension point, so within one server process the event   *)
(*    loop runs a handler from its first line to its last before it runs   *)
(*    another (LoopSpec).  The database file is shared by every worker      *)
(*    process; between workers the statements of two handlers interleave    *)
(*    (WorkerSpec), each on the session get_db gave its request.            *)
(***************************************************************************)
EXTENDS Integers, Sequences, FiniteSets, TLC

VARIABLES
    workload,       \* which router the client of this run exercises
    fake_users_db,  \* routers/users.py: the list of user dicts
    fake_items_db,  \* routers/items.py: the list of item dicts
    companies,      \* table "companies"
    insiders,       \* table "insiders"
    transactions,   \* table "transactions"
    req,            \* the request being answered
    resp,           \* its response
    issued,         \* history: per collection, the largest id an insert has assigned
    tasks,          \* the requests in flight: where each is, its body, its answer
    sessions        \* database.py: the Session objects SessionLocal() has made

vars == <<workload, fake_users_db, fake_items_db, companies, insiders, transactions, req, resp,
          issued, tasks, sessions>>

stores == <<fake_users_db, fake_items_db, companies, insiders, transactions>>

-----------------------------------------------------------------------------
(* Bounds of the model.                                                    *)

MaxUsers == 4
MaxItems == 5
MaxCompanies == 2
MaxInsiders == 2
MaxTransactions == 2
MaxBulk == 25
MaxStats == 4
MaxSkip == 2
MaxLimit == 2
TicksPerDay == 2
MaxDay == 2
MaxInFlight == 3
MaxWorkers == 2

-----------------------------------------------------------------------------
(* Optional values and Python truthiness.                                  *)

None == {}

Some(v) == {v}

Val(o) == CHOOSE v \in o : TRUE

Opt(S) == {None} \cup {Some(v) : v \in S}

\* `if s:` for an Optional[str]: None and "" are both falsy.
TruthyStr(o) == o # None /\ Val(o) # <<>>

\* `if n:` for an Optional[int]: None and 0 are both falsy.
TruthyInt(o) == o # None /\ Val(o) # 0

Min(a, b) == IF a <= b THEN a ELSE b

Max(a, b) == IF a >= b THEN a ELSE b

-----------------------------------------------------------------------------
(* Strings.                                                                *)

LowerChar(c) ==
    CASE c = "A" -> "a"
      [] c = "B" -> "b"
      [] c = "C" -> "c"
      [] c = "D" -> "d"
      [] c = "E" -> "e"
      [] c = "F" -> "f"
      [] c = "J" -> "j"
      [] OTHER -> c

\* str.lower()
PyLower(s) == [i \in 1..Len(s) |-> LowerChar(s[i])]

\* `sub in s` for two str
PyIn(sub, s) == \E i \in 0..(Len(s) - Len(sub)) : SubSeq(s, i + 1, i + Len(sub)) = sub

\* SQL lower(), as SQLAlchemy renders ilike for SQLite: lower(a) LIKE lower(b)
SqlLower(s) == [i \in 1..Len(s) |-> LowerChar(s[i])]

\* SQL LIKE: in the pattern, % matches any run of characters and _ any one
\* character; every other character matches itself.
RECURSIVE SqlLike(_, _)
SqlLike(s, pat) ==
    IF pat = <<>> THEN s = <<>>
    ELSE IF Head(pat) = "%"
         THEN SqlLike(s, Tail(pat)) \/ (s # <<>> /\ SqlLike(Tail(s), pat))
         ELSE /\ s # <<>>
              /\ (Head(pat) = "_" \/ Head(pat) = Head(s))
              /\ SqlLike(Tail(s), Tail(pat))

\* column.ilike(f"%{q}%"): a NULL column never matches.
ilike(col, q) == col # None /\ SqlLike(SqlLower(Val(col)), SqlLower(<<"%">> \o q \o <<"%">>))

-----------------------------------------------------------------------------
(* Sequences: slices, keys.  A comprehension [x for x in xs if P(x)] and a  *)
(* Query.filter(P) are SelectSeq(xs, P).                                   *)

\* a slice that starts one element late
PySliceLate(xs, a, b) == SubSeq(xs, Min(a + 1, Len(xs)) + 1, Min(b, Len(xs)))

\* a slice that takes the element at b too
PySliceInclusive(xs, a, b) == SubSeq(xs, Min(a, Len(xs)) + 1, Min(b + 1, Len(xs)))

\* xs[a:b] for 0 <= a <= b
PySlice(xs, a, b) == SubSeq(xs, Min(a, Len(xs)) + 1, Min(b, Len(xs)))

\* Query.offset(skip).limit(limit).all()
OffsetLimit(xs, skip, limit) == SubSeq(xs, Min(skip, Len(xs)) + 1, Min(skip + limit, Len(xs)))

\* Query.limit(limit).all()
Limit(xs, limit) == SubSeq(xs, 1, Min(limit, Len(xs)))

Ids(xs) == {xs[i].id : i \in 1..Len(xs)}

\* next((x for x in xs if x["id"] == id), None), Query.filter(T.id == id).first()
ById(xs, id) == IF id \in Ids(xs) THEN Some(xs[CHOOSE i \in 1..Len(xs) : xs[i].id = id]) ELSE None

SetMax(S) == CHOOSE m \in S : \A x \in S : x <= m

\* an id taken from the length of the list
NextIdByLength(xs) == Len(xs) + 1

\* max([x["id"] for x in xs], default=0) + 1; an INTEGER PRIMARY KEY of SQLite
\* likewise takes the largest rowid in the table plus one.
NextId(xs) == IF xs = <<>> THEN 1 ELSE SetMax(Ids(xs)) + 1

\* list.pop(index), Session.delete(row)
Without(xs, id) == SelectSeq(xs, LAMBDA x : x.id # id)

\* the sequence with the row of this id replaced
Replace(xs, row) == [i \in 1..Len(xs) |-> IF xs[i].id = row.id THEN row ELSE xs[i]]

-----------------------------------------------------------------------------
(* Pagination metadata, as every list handler computes it.                 *)

\* pages rounded down instead of up
PaginatedResponseFloor(items, total, skip, limit) ==
    [items |-> items,
     total |-> total,
     page |-> (skip \div limit) + 1,
     per_page |-> limit,
     pages |-> total \div limit]

\* total taken from the page instead of from the whole query
PaginatedResponsePageTotal(items, total, skip, limit) ==
    [items |-> items,
     total |-> Len(items),
     page |-> (skip \div limit) + 1,
     per_page |-> limit,
     pages |-> (total + limit - 1) \div limit]

\* page counted from 0
PaginatedResponseZeroBased(items, total, skip, limit) ==
    [items |-> items,
     total |-> total,
     page |-> skip \div limit,
     per_page |-> limit,
     pages |-> (total + limit - 1) \div limit]

PaginatedResponse(items, total, skip, limit) ==
    [items |-> items,
     total |-> total,
     page |-> (skip \div limit) + 1,
     per_page |-> limit,
     pages |-> (total + limit - 1) \div limit]

Ok(body) == [status |-> 200, body |-> body]

Created(row) == [status |-> 201, body |-> row]

\* utils/exceptions.py: <Entity>NotFoundError(id), status 404
NotFound(entity, id) == [status |-> 404, body |-> [error |-> "not found", entity |-> entity, id |-> id]]

\* HTTPException(status_code=400, detail=f"Company with symbol {symbol} already exists")
Duplicate(entity, key) == [status |-> 400, body |-> [error |-> "duplicate", entity |-> entity, key |-> key]]

\* routers/users.py and routers/items.py raise UserNotFoundError, ItemNotFoundError
\* and DuplicateEmailError, which utils/exceptions.py does not define; they follow
\* the error taxonomy: NotFound carries the kind and the id and maps to 404,
\* DuplicateKey carries the conflicting value and maps to 400.
UserNotFoundError(user_id) == NotFound("User", user_id)

ItemNotFoundError(item_id) == NotFound("Item", item_id)

DuplicateEmailError(email) == Duplicate("User", email)

\* generic_exception_handler: any other exception, such as the IntegrityError of
\* a commit that breaks a UNIQUE constraint, becomes a 500.
InternalError == [status |-> 500, body |-> [error |-> "internal"]]

Collections == {"users", "items", "companies", "insiders", "transactions"}

\* the history after an insert answered r: a 201 carries the id it assigned
Issue(collection, r) ==
    IF r.status = 201 THEN [issued EXCEPT ![collection] = Max(@, r.body.id)] ELSE issued

NoReq == [op |-> "none"]

NoResp == [status |-> 0, body |-> <<>>]

Idle == req.op = "none"

\* model_dump(exclude_unset=True) is a function from the fields the request
\* set to their values; reading a field the request left out gives None.
Field(u, f) == IF f \in DOMAIN u THEN u[f] ELSE None

\* an update that also blanks the nullable fields the request leaves out
ApplyUpdateReplace(row, u, nullable) ==
    [f \in DOMAIN row |->
        IF f \in DOMAIN u /\ u[f] # None
        THEN (IF f \in nullable THEN u[f] ELSE Val(u[f]))
        ELSE (IF f \in nullable THEN None ELSE row[f])]

\* an update that writes a null it is given into a nullable column
ApplyUpdateNulling(row, u, nullable) ==
    [f \in DOMAIN row |->
        IF f \in DOMAIN u /\ f \in nullable THEN u[f]
        ELSE IF f \in DOMAIN u /\ u[f] # None THEN Val(u[f])
        ELSE row[f]]

\* for field, value in update_data.items(): if value is not None: set it.
\* A nullable column keeps its Optional, any other field the bare value.
ApplyUpdate(row, u, nullable) ==
    [f \in DOMAIN row |->
        IF f \in DOMAIN u /\ u[f] # None
        THEN (IF f \in nullable THEN u[f] ELSE Val(u[f]))
        ELSE row[f]]

-----------------------------------------------------------------------------
(* The values requests are drawn from.  A run exercises one router (its    *)
(* workload); the bodies and filters of a workload vary the fields its     *)
(* handlers read and fix the others.                                       *)

Workloads == {"items", "users", "user_crud", "catalogue", "companies", "company_crud",
              "search", "insiders", "transactions", "bulk", "integrity", "stats",
              "active"}

Skips == 0..MaxSkip

Limits == 1..MaxLimit

PathIds == 1..3

BulkSkips == {0, 10, 20, 30}

BulkLimits == {1, 7, 10, 100}

\* CompanyCreate bodies (models/schemas.py: name and symbol non-empty,
\* market_cap > 0 or null, sector optional).
CompanyBody(name, symbol, sector, market_cap, exchange) ==
    [name |-> name, symbol |-> symbol, sector |-> sector, market_cap |-> market_cap,
     exchange |-> exchange]

CompanyInputs ==
    IF workload = "companies"
    THEN {CompanyBody(<<"a">>, <<"B">>, None, None, "TSX"),
          CompanyBody(<<"a">>, <<"B">>, Some(<<"a", "B">>), Some(5), "TSX"),
          CompanyBody(<<"a">>, <<"C">>, Some(<<"a", "B">>), Some(6), "CSE"),
          CompanyBody(<<"a">>, <<"D">>, Some(<<"c">>), Some(5), "TSX")}
    ELSE IF workload = "search"
    THEN {CompanyBody(<<"a", "B">>, <<"C">>, None, None, "TSX"),
          CompanyBody(<<"c">>, <<"B">>, None, None, "TSX"),
          CompanyBody(<<"c">>, <<"D">>, None, None, "TSX")}
    ELSE IF workload = "company_crud"
    THEN {CompanyBody(<<"a">>, <<"B">>, Some(<<"a", "B">>), None, "TSX"),
          CompanyBody(<<"a">>, <<"C">>, None, Some(5), "TSX"),
          CompanyBody(<<"a">>, <<"D">>, None, None, "CSE")}
    ELSE IF workload \in {"integrity", "active", "workers"}
    THEN {CompanyBody(<<"a">>, <<"B">>, None, None, "TSX"),
          CompanyBody(<<"c">>, <<"C">>, None, None, "TSX")}
    ELSE {CompanyBody(<<"a">>, <<"B">>, None, None, "TSX")}

\* CompanyUpdate bodies: any subset of the fields, each a value or an explicit null.
CompanyUpdates ==
    {[symbol |-> Some(<<"B">>)],
     [symbol |-> Some(<<"C">>), sector |-> None],
     [symbol |-> None, market_cap |-> Some(6)],
     [sector |-> Some(<<"c">>)]}

SectorFilters == {None, Some(<<>>), Some(<<"b">>)}

ExchangeFilters == {None, Some("TSX")}

MinCapFilters == {None, Some(0), Some(6)}

MaxCapFilters == {None, Some(0), Some(5)}

SearchTerms == {<<"b">>, <<"A">>, <<"c">>, <<"_">>, <<"b", "a">>}

\* InsiderCreate bodies
InsiderBody(name, title, company_id) == [name |-> name, title |-> title, company_id |-> company_id]

InsiderInputs ==
    IF workload = "search"
    THEN {InsiderBody(<<"a", "B">>, None, 1), InsiderBody(<<"c">>, None, 1)}
    ELSE IF workload = "insiders"
    THEN {InsiderBody(<<"a">>, None, 1), InsiderBody(<<"a">>, Some(<<"c">>), 2)}
    ELSE IF workload \in {"integrity", "active"}
    THEN {InsiderBody(<<"a">>, None, 1), InsiderBody(<<"c">>, None, 2)}
    ELSE {InsiderBody(<<"a">>, None, 1)}

\* InsiderUpdate bodies: any subset of the fields, each a value or an explicit null
InsiderUpdates ==
    {[company_id |-> Some(2), title |-> None],
     [company_id |-> Some(3), name |-> Some(<<"c">>)]}

\* TransactionCreate bodies (shares, price_per_share, total_value > 0)
TransactionBody(insider_id, company_id, transaction_date, transaction_type, total_value) ==
    [insider_id |-> insider_id, company_id |-> company_id, transaction_date |-> transaction_date,
     transaction_type |-> transaction_type, shares |-> 1, price_per_share |-> total_value,
     total_value |-> total_value, filing_date |-> MaxDay * TicksPerDay + TicksPerDay, notes |-> None]

\* a datetime: the tick-th instant of a day; tick 0 is midnight
At(day, tick) == day * TicksPerDay + tick

TransactionInputs ==
    IF workload = "bulk"
    THEN {TransactionBody(1, 1, At(1, 1), "buy", 5)}
    ELSE IF workload = "integrity"
    THEN {TransactionBody(1, 1, At(1, 0), "buy", 5)}
    ELSE IF workload = "stats"
    THEN {TransactionBody(1, 1, At(1, 1), "buy", 100),
          TransactionBody(1, 1, At(MaxDay, 0), "sell", 50)}
    ELSE IF workload = "active"
    THEN {TransactionBody(1, 2, At(1, 0), "buy", 5),
          TransactionBody(2, 1, At(MaxDay, 0), "buy", 5)}
    ELSE {TransactionBody(1, 1, At(1, 0), "buy", 5),
          TransactionBody(1, 1, At(1, TicksPerDay - 1), "sell", 6),
          TransactionBody(2, 1, At(MaxDay, TicksPerDay - 1), "buy", 6),
          TransactionBody(2, 1, At(MaxDay, 0), "sell", 5),
          TransactionBody(1, 2, At(1, 0), "buy", 5),
          TransactionBody(3, 1, At(1, 0), "buy", 5)}

\* TransactionUpdate bodies: any subset of the fields, each a value or an
\* explicit null; the schema has neither insider_id nor company_id
TransactionUpdates ==
    {[total_value |-> Some(6), transaction_type |-> Some("sell")],
     [notes |-> Some(<<"c">>), total_value |-> None],
     [notes |-> None]}

TypeFilters == {None, Some("buy")}

IdFilters == {None, Some(1)}

DateFilters == {None} \cup {Some(d) : d \in 1..MaxDay}

MinValueFilters == {None, Some(0), Some(6)}

MaxValueFilters == {None, Some(0), Some(5)}

\* the query strings of GET /transactions/: the type and insider filters with
\* every date range, and the value ranges with every company and end date
TransactionFilters ==
    [transaction_type : TypeFilters, company_id : {None}, insider_id : IdFilters,
     start_date : DateFilters, end_date : DateFilters, min_value : {None}, max_value : {None}]
    \cup
    [transaction_type : {None}, company_id : IdFilters, insider_id : {None},
     start_date : {None}, end_date : DateFilters, min_value : MinValueFilters,
     max_value : MaxValueFilters]

\* UserCreate bodies, as create_user reads them
UserInputs ==
    IF workload = "loop"
    THEN {[name |-> <<"a", "B">>, email |-> <<"a">>, age |-> 41],
          [name |-> <<"B">>, email |-> <<"a">>, age |-> 18],
          [name |-> <<"B">>, email |-> <<"c">>, age |-> 18]}
    ELSE IF workload = "catalogue"
    THEN {[name |-> <<"a", "B">>, email |-> <<"a">>, age |-> 41]}
    ELSE {[name |-> <<"J", "o">>, email |-> <<"j", "o">>, age |-> 30],
          [name |-> <<"a", "B">>, email |-> <<"a">>, age |-> 41],
          [name |-> <<"B">>, email |-> <<"c">>, age |-> 18]}

\* UserUpdate bodies, as update_user reads them: any subset of the fields name,
\* email and age, each a value or an explicit null; like the name and symbol of
\* CompanyUpdate, a string that is given is not empty.
UserUpdates ==
    {[email |-> Some(<<"j", "o">>)],
     [email |-> Some(<<"j", "a">>), name |-> None],
     [email |-> Some(<<"a">>), age |-> Some(18)]}

\* ItemCreate bodies, as create_item reads them
ItemInputs ==
    {[title |-> <<"a">>, price |-> 4500, category |-> <<"b">>, owner_id |-> 1],
     [title |-> <<"a">>, price |-> 8999, category |-> <<"E">>, owner_id |-> 3],
     [title |-> <<"a">>, price |-> 1, category |-> <<"B">>, owner_id |-> 4]}

\* ItemUpdate bodies, as update_item reads them: any subset of the fields, each
\* a value or an explicit null
ItemUpdates ==
    {[price |-> Some(1), title |-> Some(<<"a">>)],
     [category |-> Some(<<"b">>), price |-> None]}

CategoryFilters == {None, Some(<<>>), Some(<<"b">>), Some(<<"E">>)}

MinPriceFilters == {None, Some(0), Some(8999)}

MaxPriceFilters == {None, Some(0), Some(29950)}

-----------------------------------------------------------------------------
(* routers/companies.py                                                    *)

CompanyNullable == {"sector", "market_cap"}

\* UNIQUE(symbol) of table companies, checked by the database at commit
SymbolUnique(rows) == \A i, j \in 1..Len(rows) : rows[i].symbol = rows[j].symbol => i = j

\* the chain of Query.filter calls of get_companies
CompanyQuery(sector, exchange, min_market_cap, max_market_cap, active_only) ==
    LET q0 == companies
        q1 == IF TruthyStr(sector)
              THEN SelectSeq(q0, LAMBDA c : ilike(c.sector, Val(sector))) ELSE q0
        q2 == IF exchange # None
              THEN SelectSeq(q1, LAMBDA c : c.exchange = Val(exchange)) ELSE q1
        q3 == IF min_market_cap # None
              THEN SelectSeq(q2, LAMBDA c : c.market_cap # None /\ Val(c.market_cap) >= Val(min_market_cap))
              ELSE q2
        q4 == IF max_market_cap # None
              THEN SelectSeq(q3, LAMBDA c : c.market_cap # None /\ Val(c.market_cap) <= Val(max_market_cap))
              ELSE q3
        q5 == IF active_only THEN SelectSeq(q4, LAMBDA c : c.is_active = TRUE) ELSE q4
    IN q5

get_companies(skip, limit, sector, exchange, min_market_cap, max_market_cap, active_only) ==
    /\ LET query == CompanyQuery(sector, exchange, min_market_cap, max_market_cap, active_only)
           total == Len(query)
           rows == OffsetLimit(query, skip, limit)
       IN resp' = Ok(PaginatedResponse(rows, total, skip, limit))
    /\ req' = [op |-> "get_companies", skip |-> skip, limit |-> limit, sector |-> sector,
               exchange |-> exchange, min_market_cap |-> min_market_cap,
               max_market_cap |-> max_market_cap, active_only |-> active_only]
    /\ UNCHANGED <<workload, issued, stores>>

get_company(company_id) ==
    /\ LET company == ById(companies, company_id)
       IN resp' = IF company = None THEN NotFound("Company", company_id) ELSE Ok(Val(company))
    /\ req' = [op |-> "get_company", id |-> company_id]
    /\ UNCHANGED <<workload, issued, stores>>

\* create_company without the look-up of the symbol: the insert goes straight
\* to the database
create_company_unchecked(company) ==
    /\ Len(companies) < MaxCompanies
    /\ LET db_company == [id |-> NextId(companies), name |-> company.name,
                          symbol |-> company.symbol, sector |-> company.sector,
                          market_cap |-> company.market_cap, exchange |-> company.exchange,
                          is_active |-> TRUE]
           added == Append(companies, db_company)
       IN IF ~SymbolUnique(added)
          THEN resp' = InternalError /\ UNCHANGED companies
          ELSE resp' = Created(db_company) /\ companies' = added
    /\ req' = [op |-> "create_company", body |-> company]
    /\ issued' = Issue("companies", resp')
    /\ UNCHANGED <<workload, fake_users_db, fake_items_db, insiders, transactions>>

create_company(company) ==
    /\ Len(companies) < MaxCompanies
    /\ LET existing_company == SelectSeq(companies, LAMBDA c : c.symbol = company.symbol)
           db_company == [id |-> NextId(companies), name |-> company.name,
                          symbol |-> company.symbol, sector |-> company.sector,
                          market_cap |-> company.market_cap, exchange |-> company.exchange,
                          is_active |-> TRUE]
           added == Append(companies, db_company)
       IN IF existing_company # <<>>
          THEN resp' = Duplicate("Company", company.symbol) /\ UNCHANGED companies
          ELSE IF ~SymbolUnique(added)
          THEN resp' = InternalError /\ UNCHANGED companies
          ELSE resp' = Created(db_company) /\ companies' = added
    /\ req' = [op |-> "create_company", body |-> company]
    /\ issued' = Issue("companies", resp')
    /\ UNCHANGED <<workload, fake_users_db, fake_items_db, insiders, transactions>>

update_company(company_id, company_update) ==
    /\ LET company == ById(companies, company_id)
           symbol == Field(company_update, "symbol")
           existing_company == SelectSeq(companies, LAMBDA c : c.symbol = Val(symbol))
           updated == ApplyUpdate(Val(company), company_update, CompanyNullable)
           written == Replace(companies, updated)
       IN IF company = None
          THEN resp' = NotFound("Company", company_id) /\ UNCHANGED companies
          ELSE IF symbol # None /\ Val(symbol) # Val(company).symbol /\ existing_company # <<>>
          THEN resp' = Duplicate("Company", Val(symbol)) /\ UNCHANGED companies
          ELSE IF ~SymbolUnique(written)
          THEN resp' = InternalError /\ UNCHANGED companies
          ELSE resp' = Ok(updated) /\ companies' = written
    /\ req' = [op |-> "update_company", id |-> company_id, body |-> company_update]
    /\ UNCHANGED <<workload, issued, fake_users_db, fake_items_db, insiders, transactions>>

\* Session.delete(parent); commit() where the parent has a relationship without
\* a delete cascade (Company.insiders, Company.transactions,
\* Insider.transactions): the flush loads the children and sets their foreign
\* key to NULL.  company_id and insider_id are nullable=False, so with a child
\* the UPDATE fails, commit raises IntegrityError and nothing is written.
Nullifies(children, key, id) == \E i \in 1..Len(children) : children[i][key] = id

\* delete_company that removes the insiders and transactions of the company too
delete_company_cascade(company_id) ==
    /\ LET company == ById(companies, company_id)
       IN IF company = None
          THEN resp' = NotFound("Company", company_id) /\ UNCHANGED <<companies, insiders, transactions>>
          ELSE /\ resp' = Ok([deleted_company_id |-> company_id])
               /\ companies' = Without(companies, company_id)
               /\ insiders' = SelectSeq(insiders, LAMBDA i : i.company_id # company_id)
               /\ transactions' = SelectSeq(transactions, LAMBDA t : t.company_id # company_id)
    /\ req' = [op |-> "delete_company", id |-> company_id]
    /\ UNCHANGED <<workload, issued, fake_users_db, fake_items_db>>

delete_company(company_id) ==
    /\ LET company == ById(companies, company_id)
       IN IF company = None
          THEN resp' = NotFound("Company", company_id) /\ UNCHANGED companies
          ELSE IF \/ Nullifies(insiders, "company_id", company_id)
                  \/ Nullifies(transactions, "company_id", company_id)
          THEN resp' = InternalError /\ UNCHANGED companies
          ELSE /\ resp' = Ok([deleted_company_id |-> company_id])
               /\ companies' = Without(companies, company_id)
    /\ req' = [op |-> "delete_company", id |-> company_id]
    /\ UNCHANGED <<workload, issued, fake_users_db, fake_items_db, insiders, transactions>>

search_companies(q, limit) ==
    /\ LET found == SelectSeq(companies, LAMBDA c : ilike(Some(c.name), q) \/ ilike(Some(c.symbol), q))
       IN resp' = Ok(Limit(found, limit))
    /\ req' = [op |-> "search_companies", q |-> q, limit |-> limit]
    /\ UNCHANGED <<workload, issued, stores>>

\* a toggle that only ever deactivates
toggle_company_status_off(company_id) ==
    /\ LET company == ById(companies, company_id)
           toggled == [Val(company) EXCEPT !.is_active = FALSE]
       IN IF company = None
          THEN resp' = NotFound("Company", company_id) /\ UNCHANGED companies
          ELSE resp' = Ok(toggled) /\ companies' = Replace(companies, toggled)
    /\ req' = [op |-> "toggle_company_status", id |-> company_id]
    /\ UNCHANGED <<workload, issued, fake_users_db, fake_items_db, insiders, transactions>>

toggle_company_status(company_id) ==
    /\ LET company == ById(companies, company_id)
           toggled == [Val(company) EXCEPT !.is_active = ~Val(company).is_active]
       IN IF company = None
          THEN resp' = NotFound("Company", company_id) /\ UNCHANGED companies
          ELSE resp' = Ok(toggled) /\ companies' = Replace(companies, toggled)
    /\ req' = [op |-> "toggle_company_status", id |-> company_id]
    /\ UNCHANGED <<workload, issued, fake_users_db, fake_items_db, insiders, transactions>>

-----------------------------------------------------------------------------
(* routers/insiders.py                                                     *)

\* the Query.filter call of get_insiders
InsiderQuery(active_only) ==
    LET q0 == insiders
    IN IF active_only THEN SelectSeq(q0, LAMBDA i : i.is_active = TRUE) ELSE q0

get_insiders(skip, limit, active_only) ==
    /\ LET query == InsiderQuery(active_only)
           total == Len(query)
           rows == OffsetLimit(query, skip, limit)
       IN resp' = Ok(PaginatedResponse(rows, total, skip, limit))
    /\ req' = [op |-> "get_insiders", skip |-> skip, limit |-> limit, active_only |-> active_only]
    /\ UNCHANGED <<workload, issued, stores>>

get_insider(insider_id) ==
    /\ LET insider == ById(insiders, insider_id)
       IN resp' = IF insider = None THEN NotFound("Insider", insider_id) ELSE Ok(Val(insider))
    /\ req' = [op |-> "get_insider", id |-> insider_id]
    /\ UNCHANGED <<workload, issued, stores>>

create_insider(insider) ==
    /\ Len(insiders) < MaxInsiders
    /\ LET company == ById(companies, insider.company_id)
           db_insider == [id |-> NextId(insiders), name |-> insider.name, title |-> insider.title,
                          company_id |-> insider.company_id, is_active |-> TRUE]
       IN IF company = None
          THEN resp' = NotFound("Company", insider.company_id) /\ UNCHANGED insiders
          ELSE resp' = Created(db_insider) /\ insiders' = Append(insiders, db_insider)
    /\ req' = [op |-> "create_insider", body |-> insider]
    /\ issued' = Issue("insiders", resp')
    /\ UNCHANGED <<workload, fake_users_db, fake_items_db, companies, transactions>>

InsiderNullable == {"title"}

update_insider(insider_id, insider_update) ==
    /\ LET insider == ById(insiders, insider_id)
           company_id == Field(insider_update, "company_id")
           company == ById(companies, Val(company_id))
           updated == ApplyUpdate(Val(insider), insider_update, InsiderNullable)
       IN IF insider = None
          THEN resp' = NotFound("Insider", insider_id) /\ UNCHANGED insiders
          ELSE IF TruthyInt(company_id) /\ company = None
          THEN resp' = NotFound("Company", Val(company_id)) /\ UNCHANGED insiders
          ELSE resp' = Ok(updated) /\ insiders' = Replace(insiders, updated)
    /\ req' = [op |-> "update_insider", id |-> insider_id, body |-> insider_update]
    /\ UNCHANGED <<workload, issued, fake_users_db, fake_items_db, companies, transactions>>

\* delete_insider that leaves the transactions of the insider untouched, foreign
\* key included
delete_insider_unrestricted(insider_id) ==
    /\ LET insider == ById(insiders, insider_id)
       IN IF insider = None
          THEN resp' = NotFound("Insider", insider_id) /\ UNCHANGED insiders
          ELSE /\ resp' = Ok([deleted_insider_id |-> insider_id])
               /\ insiders' = Without(insiders, insider_id)
    /\ req' = [op |-> "delete_insider", id |-> insider_id]
    /\ UNCHANGED <<workload, issued, fake_users_db, fake_items_db, companies, transactions>>

delete_insider(insider_id) ==
    /\ LET insider == ById(insiders, insider_id)
       IN IF insider = None
          THEN resp' = NotFound("Insider", insider_id) /\ UNCHANGED insiders
          ELSE IF Nullifies(transactions, "insider_id", insider_id)
          THEN resp' = InternalError /\ UNCHANGED insiders
          ELSE /\ resp' = Ok([deleted_insider_id |-> insider_id])
               /\ insiders' = Without(insiders, insider_id)
    /\ req' = [op |-> "delete_insider", id |-> insider_id]
    /\ UNCHANGED <<workload, issued, fake_users_db, fake_items_db, companies, transactions>>

search_insiders(q, limit) ==
    /\ LET found == SelectSeq(insiders, LAMBDA i : ilike(Some(i.name), q))
       IN resp' = Ok(Limit(found, limit))
    /\ req' = [op |-> "search_insiders", q |-> q, limit |-> limit]
    /\ UNCHANGED <<workload, issued, stores>>

get_insiders_by_company(company_id, active_only) ==
    /\ LET company == ById(companies, company_id)
           q0 == SelectSeq(insiders, LAMBDA i : i.company_id = company_id)
           q1 == IF active_only THEN SelectSeq(q0, LAMBDA i : i.is_active = TRUE) ELSE q0
       IN resp' = IF company = None THEN NotFound("Company", company_id) ELSE Ok(q1)
    /\ req' = [op |-> "get_insiders_by_company", id |-> company_id, active_only |-> active_only]
    /\ UNCHANGED <<workload, issued, stores>>

-----------------------------------------------------------------------------
(* routers/transactions.py                                                 *)

\* a date bound to a DateTime column is the midnight that starts the day
DateAsDateTime(d) == d * TicksPerDay

\* the place of row x in rows sorted by transaction_date descending: before
\* the first row that is not later than x
RECURSIVE InsertByDateDesc(_, _)
InsertByDateDesc(x, rows) ==
    IF rows = <<>> THEN <<x>>
    ELSE IF Head(rows).transaction_date <= x.transaction_date THEN <<x>> \o rows
         ELSE <<Head(rows)>> \o InsertByDateDesc(x, Tail(rows))

\* no ordering at all: the rows in rowid order
OrderByRowid(rows) == rows

\* Query.order_by(desc(Transaction.transaction_date)); rows of one date stay in
\* rowid order
RECURSIVE OrderByDateDesc(_)
OrderByDateDesc(rows) ==
    IF rows = <<>> THEN <<>>
    ELSE InsertByDateDesc(Head(rows), OrderByDateDesc(Tail(rows)))

\* the date range filters of get_transactions and get_transaction_stats
DateRangeQuery(q0, start_date, end_date) ==
    LET q1 == IF start_date # None
              THEN SelectSeq(q0, LAMBDA t : t.transaction_date >= DateAsDateTime(Val(start_date)))
              ELSE q0
        q2 == IF end_date # None
              THEN SelectSeq(q1, LAMBDA t : t.transaction_date <= DateAsDateTime(Val(end_date)))
              ELSE q1
    IN q2

\* the chain of Query.filter calls of get_transactions, then its order_by
TransactionQuery(f) ==
    LET q0 == transactions
        q1 == IF f.transaction_type # None
              THEN SelectSeq(q0, LAMBDA t : t.transaction_type = Val(f.transaction_type)) ELSE q0
        q2 == IF TruthyInt(f.company_id)
              THEN SelectSeq(q1, LAMBDA t : t.company_id = Val(f.company_id)) ELSE q1
        q3 == IF TruthyInt(f.insider_id)
              THEN SelectSeq(q2, LAMBDA t : t.insider_id = Val(f.insider_id)) ELSE q2
        q5 == DateRangeQuery(q3, f.start_date, f.end_date)
        q6 == IF f.min_value # None
              THEN SelectSeq(q5, LAMBDA t : t.total_value >= Val(f.min_value)) ELSE q5
        q7 == IF f.max_value # None
              THEN SelectSeq(q6, LAMBDA t : t.total_value <= Val(f.max_value)) ELSE q6
    IN OrderByDateDesc(q7)

get_transactions(skip, limit, f) ==
    /\ LET query == TransactionQuery(f)
           total == Len(query)
           rows == OffsetLimit(query, skip, limit)
       IN resp' = Ok(PaginatedResponse(rows, total, skip, limit))
    /\ req' = [op |-> "get_transactions", skip |-> skip, limit |-> limit, filters |-> f]
    /\ UNCHANGED <<workload, issued, stores>>

get_transaction(transaction_id) ==
    /\ LET transaction == ById(transactions, transaction_id)
       IN resp' = IF transaction = None THEN NotFound("Transaction", transaction_id)
                  ELSE Ok(Val(transaction))
    /\ req' = [op |-> "get_transaction", id |-> transaction_id]
    /\ UNCHANGED <<workload, issued, stores>>

\* the number of transactions a run inserts at most
TransactionBound ==
    CASE workload = "bulk" -> MaxBulk
      [] workload \in {"stats", "active"} -> MaxStats
      [] OTHER -> MaxTransactions

\* create_transaction that looks the company up before the insider
create_transaction_company_first(transaction) ==
    /\ Len(transactions) < TransactionBound
    /\ LET insider == ById(insiders, transaction.insider_id)
           company == ById(companies, transaction.company_id)
           db_transaction == [id |-> NextId(transactions)] @@ transaction
       IN IF company = None
          THEN resp' = NotFound("Company", transaction.company_id) /\ UNCHANGED transactions
          ELSE IF insider = None
          THEN resp' = NotFound("Insider", transaction.insider_id) /\ UNCHANGED transactions
          ELSE resp' = Created(db_transaction) /\ transactions' = Append(transactions, db_transaction)
    /\ req' = [op |-> "create_transaction", body |-> transaction]
    /\ issued' = Issue("transactions", resp')
    /\ UNCHANGED <<workload, fake_users_db, fake_items_db, companies, insiders>>

create_transaction(transaction) ==
    /\ Len(transactions) < TransactionBound
    /\ LET insider == ById(insiders, transaction.insider_id)
           company == ById(companies, transaction.company_id)
           db_transaction == [id |-> NextId(transactions)] @@ transaction
       IN IF insider = None
          THEN resp' = NotFound("Insider", transaction.insider_id) /\ UNCHANGED transactions
          ELSE IF company = None
          THEN resp' = NotFound("Company", transaction.company_id) /\ UNCHANGED transactions
          ELSE resp' = Created(db_transaction) /\ transactions' = Append(transactions, db_transaction)
    /\ req' = [op |-> "create_transaction", body |-> transaction]
    /\ issued' = Issue("transactions", resp')
    /\ UNCHANGED <<workload, fake_users_db, fake_items_db, companies, insiders>>

TransactionNullable == {"notes"}

update_transaction(transaction_id, transaction_update) ==
    /\ LET transaction == ById(transactions, transaction_id)
           updated == ApplyUpdate(Val(transaction), transaction_update, TransactionNullable)
       IN IF transaction = None
          THEN resp' = NotFound("Transaction", transaction_id) /\ UNCHANGED transactions
          ELSE resp' = Ok(updated) /\ transactions' = Replace(transactions, updated)
    /\ req' = [op |-> "update_transaction", id |-> transaction_id, body |-> transaction_update]
    /\ UNCHANGED <<workload, issued, fake_users_db, fake_items_db, companies, insiders>>

delete_transaction(transaction_id) ==
    /\ LET transaction == ById(transactions, transaction_id)
       IN IF transaction = None
          THEN resp' = NotFound("Transaction", transaction_id) /\ UNCHANGED transactions
          ELSE /\ resp' = Ok([deleted_transaction_id |-> transaction_id])
               /\ transactions' = Without(transactions, transaction_id)
    /\ req' = [op |-> "delete_transaction", id |-> transaction_id]
    /\ UNCHANGED <<workload, issued, fake_users_db, fake_items_db, companies, insiders>>

get_transactions_by_insider(insider_id, transaction_type, limit) ==
    /\ LET insider == ById(insiders, insider_id)
           q0 == SelectSeq(transactions, LAMBDA t : t.insider_id = insider_id)
           q1 == IF transaction_type # None
                 THEN SelectSeq(q0, LAMBDA t : t.transaction_type = Val(transaction_type)) ELSE q0
       IN resp' = IF insider = None THEN NotFound("Insider", insider_id)
                  ELSE Ok(Limit(OrderByDateDesc(q1), limit))
    /\ req' = [op |-> "get_transactions_by_insider", id |-> insider_id,
               transaction_type |-> transaction_type, limit |-> limit]
    /\ UNCHANGED <<workload, issued, stores>>

get_transactions_by_company(company_id, transaction_type, limit) ==
    /\ LET company == ById(companies, company_id)
           q0 == SelectSeq(transactions, LAMBDA t : t.company_id = company_id)
           q1 == IF transaction_type # None
                 THEN SelectSeq(q0, LAMBDA t : t.transaction_type = Val(transaction_type)) ELSE q0
       IN resp' = IF company = None THEN NotFound("Company", company_id)
                  ELSE Ok(Limit(OrderByDateDesc(q1), limit))
    /\ req' = [op |-> "get_transactions_by_company", id |-> company_id,
               transaction_type |-> transaction_type, limit |-> limit]
    /\ UNCHANGED <<workload, issued, stores>>

\* sum(t.total_value for t in rows)
RECURSIVE SumValue(_)
SumValue(rows) == IF rows = <<>> THEN 0 ELSE Head(rows).total_value + SumValue(Tail(rows))

\* the id with the largest count, and of those the smallest
MostActiveLowestId(ids) ==
    LET count(k) == Cardinality({i \in 1..Len(ids) : ids[i] = k})
        keys == {ids[i] : i \in 1..Len(ids)}
    IN CHOOSE k \in keys : \A o \in keys :
           count(o) < count(k) \/ (count(o) = count(k) /\ k <= o)

\* max(counts, key=counts.get) over the dict built by counting ids in order:
\* the id with the largest count, and of those the one met first
MostActive(ids) ==
    LET count(k) == Cardinality({i \in 1..Len(ids) : ids[i] = k})
        first(k) == CHOOSE i \in 1..Len(ids) : ids[i] = k /\ \A j \in 1..(i - 1) : ids[j] # k
        keys == {ids[i] : i \in 1..Len(ids)}
    IN CHOOSE k \in keys : \A o \in keys :
           count(o) < count(k) \/ (count(o) = count(k) /\ first(k) <= first(o))

\* get_transaction_stats whose buy total forgets the condition on the type
get_transaction_stats_untyped(start_date, end_date) ==
    /\ LET rows == DateRangeQuery(transactions, start_date, end_date)
           total_buy_value == SumValue(rows)
           total_sell_value == SumValue(SelectSeq(rows, LAMBDA t : t.transaction_type = "sell"))
           insider == ById(insiders, MostActive([i \in 1..Len(rows) |-> rows[i].insider_id]))
           company == ById(companies, MostActive([i \in 1..Len(rows) |-> rows[i].company_id]))
       IN resp' = Ok([total_transactions |-> Len(rows),
                      total_buy_value |-> total_buy_value,
                      total_sell_value |-> total_sell_value,
                      net_value |-> total_buy_value - total_sell_value,
                      most_active_insider |->
                          IF rows = <<>> \/ insider = None THEN None ELSE Some(Val(insider).name),
                      most_active_company |->
                          IF rows = <<>> \/ company = None THEN None ELSE Some(Val(company).name)])
    /\ req' = [op |-> "get_transaction_stats", start_date |-> start_date, end_date |-> end_date]
    /\ UNCHANGED <<workload, issued, stores>>

get_transaction_stats(start_date, end_date) ==
    /\ LET rows == DateRangeQuery(transactions, start_date, end_date)
           total_buy_value == SumValue(SelectSeq(rows, LAMBDA t : t.transaction_type = "buy"))
           total_sell_value == SumValue(SelectSeq(rows, LAMBDA t : t.transaction_type = "sell"))
           insider == ById(insiders, MostActive([i \in 1..Len(rows) |-> rows[i].insider_id]))
           company == ById(companies, MostActive([i \in 1..Len(rows) |-> rows[i].company_id]))
       IN resp' = Ok([total_transactions |-> Len(rows),
                      total_buy_value |-> total_buy_value,
                      total_sell_value |-> total_sell_value,
                      net_value |-> total_buy_value - total_sell_value,
                      most_active_insider |->
                          IF rows = <<>> \/ insider = None THEN None ELSE Some(Val(insider).name),
                      most_active_company |->
                          IF rows = <<>> \/ company = None THEN None ELSE Some(Val(company).name)])
    /\ req' = [op |-> "get_transaction_stats", start_date |-> start_date, end_date |-> end_date]
    /\ UNCHANGED <<workload, issued, stores>>

-----------------------------------------------------------------------------
(* routers/users.py                                                        *)

InitUsers ==
    <<[id |-> 1, name |-> <<"J", "o">>, email |-> <<"j", "o">>, age |-> 30, is_active |-> TRUE],
      [id |-> 2, name |-> <<"J", "a">>, email |-> <<"j", "a">>, age |-> 25, is_active |-> TRUE],
      [id |-> 3, name |-> <<"B", "o">>, email |-> <<"b", "o">>, age |-> 35, is_active |-> FALSE]>>

\* get_users that filters whether or not active_only is set
UserFilterAlways(active_only) == SelectSeq(fake_users_db, LAMBDA user : user.is_active)

\* the list comprehension of get_users
UserFilter(active_only) ==
    IF active_only THEN SelectSeq(fake_users_db, LAMBDA user : user.is_active) ELSE fake_users_db

get_users(skip, limit, active_only) ==
    /\ LET filtered_users == UserFilter(active_only)
           total == Len(filtered_users)
           users == PySlice(filtered_users, skip, skip + limit)
       IN resp' = Ok(PaginatedResponse(users, total, skip, limit))
    /\ req' = [op |-> "get_users", skip |-> skip, limit |-> limit, active_only |-> active_only]
    /\ UNCHANGED <<workload, issued, stores>>

get_user(user_id) ==
    /\ LET user == ById(fake_users_db, user_id)
       IN resp' = IF user = None THEN UserNotFoundError(user_id) ELSE Ok(Val(user))
    /\ req' = [op |-> "get_user", id |-> user_id]
    /\ UNCHANGED <<workload, issued, stores>>

\* the number of users a run holds at most; the requests in flight are
\* answered once each
UserBound == IF workload = "loop" THEN Len(InitUsers) + MaxInFlight ELSE MaxUsers

create_user(user) ==
    /\ Len(fake_users_db) < UserBound
    /\ LET existing_user == SelectSeq(fake_users_db, LAMBDA u : u.email = user.email)
           new_user == [id |-> NextId(fake_users_db), name |-> user.name, email |-> user.email,
                        age |-> user.age, is_active |-> TRUE]
       IN IF existing_user # <<>>
          THEN resp' = DuplicateEmailError(user.email) /\ UNCHANGED fake_users_db
          ELSE resp' = Created(new_user) /\ fake_users_db' = Append(fake_users_db, new_user)
    /\ req' = [op |-> "create_user", body |-> user]
    /\ issued' = Issue("users", resp')
    /\ UNCHANGED <<workload, fake_items_db, companies, insiders, transactions>>

\* update_user without the look-up of the email
update_user_unchecked(user_id, user_update) ==
    /\ LET user == ById(fake_users_db, user_id)
           updated == ApplyUpdate(Val(user), user_update, {})
       IN IF user = None
          THEN resp' = UserNotFoundError(user_id) /\ UNCHANGED fake_users_db
          ELSE resp' = Ok(updated) /\ fake_users_db' = Replace(fake_users_db, updated)
    /\ req' = [op |-> "update_user", id |-> user_id, body |-> user_update]
    /\ UNCHANGED <<workload, issued, fake_items_db, companies, insiders, transactions>>

update_user(user_id, user_update) ==
    /\ LET user == ById(fake_users_db, user_id)
           email == Field(user_update, "email")
           existing_user == SelectSeq(fake_users_db, LAMBDA u : u.email = Val(email))
           updated == ApplyUpdate(Val(user), user_update, {})
       IN IF user = None
          THEN resp' = UserNotFoundError(user_id) /\ UNCHANGED fake_users_db
          ELSE IF TruthyStr(email) /\ Val(email) # Val(user).email /\ existing_user # <<>>
          THEN resp' = DuplicateEmailError(Val(email)) /\ UNCHANGED fake_users_db
          ELSE resp' = Ok(updated) /\ fake_users_db' = Replace(fake_users_db, updated)
    /\ req' = [op |-> "update_user", id |-> user_id, body |-> user_update]
    /\ UNCHANGED <<workload, issued, fake_items_db, companies, insiders, transactions>>

delete_user(user_id) ==
    /\ LET user == ById(fake_users_db, user_id)
       IN IF user = None
          THEN resp' = UserNotFoundError(user_id) /\ UNCHANGED fake_users_db
          ELSE /\ resp' = Ok([deleted_user_id |-> user_id])
               /\ fake_users_db' = Without(fake_users_db, user_id)
    /\ req' = [op |-> "delete_user", id |-> user_id]
    /\ UNCHANGED <<workload, issued, fake_items_db, companies, insiders, transactions>>

search_users(q, limit) ==
    /\ LET matching_users == SelectSeq(fake_users_db, LAMBDA user : PyIn(PyLower(q), PyLower(user.name)))
       IN resp' = Ok(PySlice(matching_users, 0, limit))
    /\ req' = [op |-> "search_users", q |-> q, limit |-> limit]
    /\ UNCHANGED <<workload, issued, stores>>

-----------------------------------------------------------------------------
(* routers/items.py                                                        *)

InitItems ==
    <<[id |-> 1, title |-> <<"L">>, price |-> 99999, category |-> <<"E">>, owner_id |-> 1,
       is_available |-> TRUE],
      [id |-> 2, title |-> <<"O">>, price |-> 29950, category |-> <<"F">>, owner_id |-> 1,
       is_available |-> TRUE],
      [id |-> 3, title |-> <<"C">>, price |-> 8999, category |-> <<"A">>, owner_id |-> 2,
       is_available |-> FALSE],
      [id |-> 4, title |-> <<"P">>, price |-> 4500, category |-> <<"B">>, owner_id |-> 3,
       is_available |-> TRUE]>>

\* routers/items.py keeps its own list of the user ids it accepts
items_fake_users_db == {1, 2, 3}

\* get_items with `elif max_price is not None`: max_price is ignored when
\* min_price is given
ItemFilterElif(category, min_price, max_price, available_only) ==
    LET f0 == fake_items_db
        f1 == IF TruthyStr(category)
              THEN SelectSeq(f0, LAMBDA item : PyLower(item.category) = PyLower(Val(category)))
              ELSE f0
        f2 == IF min_price # None
              THEN SelectSeq(f1, LAMBDA item : item.price >= Val(min_price)) ELSE f1
        f3 == IF min_price = None /\ max_price # None
              THEN SelectSeq(f2, LAMBDA item : item.price <= Val(max_price)) ELSE f2
        f4 == IF available_only THEN SelectSeq(f3, LAMBDA item : item.is_available) ELSE f3
    IN f4

\* get_items with a strict lower bound: price > min_price
ItemFilterStrict(category, min_price, max_price, available_only) ==
    LET f0 == fake_items_db
        f1 == IF TruthyStr(category)
              THEN SelectSeq(f0, LAMBDA item : PyLower(item.category) = PyLower(Val(category)))
              ELSE f0
        f2 == IF min_price # None
              THEN SelectSeq(f1, LAMBDA item : item.price > Val(min_price)) ELSE f1
        f3 == IF max_price # None
              THEN SelectSeq(f2, LAMBDA item : item.price <= Val(max_price)) ELSE f2
        f4 == IF available_only THEN SelectSeq(f3, LAMBDA item : item.is_available) ELSE f3
    IN f4

\* the chain of list comprehensions of get_items
ItemFilter(category, min_price, max_price, available_only) ==
    LET f0 == fake_items_db
        f1 == IF TruthyStr(category)
              THEN SelectSeq(f0, LAMBDA item : PyLower(item.category) = PyLower(Val(category)))
              ELSE f0
        f2 == IF min_price # None
              THEN SelectSeq(f1, LAMBDA item : item.price >= Val(min_price)) ELSE f1
        f3 == IF max_price # None
              THEN SelectSeq(f2, LAMBDA item : item.price <= Val(max_price)) ELSE f2
        f4 == IF available_only THEN SelectSeq(f3, LAMBDA item : item.is_available) ELSE f3
    IN f4

\* get_items that filters the list in place
get_items_in_place(skip, limit, category, min_price, max_price, available_only) ==
    /\ LET filtered_items == ItemFilter(category, min_price, max_price, available_only)
           total == Len(filtered_items)
           items == PySlice(filtered_items, skip, skip + limit)
       IN /\ resp' = Ok(PaginatedResponse(items, total, skip, limit))
          /\ fake_items_db' = filtered_items
    /\ req' = [op |-> "get_items", skip |-> skip, limit |-> limit, category |-> category,
               min_price |-> min_price, max_price |-> max_price, available_only |-> available_only]
    /\ UNCHANGED <<workload, issued, fake_users_db, companies, insiders, transactions>>

get_items(skip, limit, category, min_price, max_price, available_only) ==
    /\ LET filtered_items == ItemFilter(category, min_price, max_price, available_only)
           total == Len(filtered_items)
           items == PySlice(filtered_items, skip, skip + limit)
       IN resp' = Ok(PaginatedResponse(items, total, skip, limit))
    /\ req' = [op |-> "get_items", skip |-> skip, limit |-> limit, category |-> category,
               min_price |-> min_price, max_price |-> max_price, available_only |-> available_only]
    /\ UNCHANGED <<workload, issued, stores>>

get_item(item_id) ==
    /\ LET item == ById(fake_items_db, item_id)
       IN resp' = IF item = None THEN ItemNotFoundError(item_id) ELSE Ok(Val(item))
    /\ req' = [op |-> "get_item", id |-> item_id]
    /\ UNCHANGED <<workload, issued, stores>>

create_item(item) ==
    /\ Len(fake_items_db) < MaxItems
    /\ LET new_item == [id |-> NextId(fake_items_db), title |-> item.title, price |-> item.price,
                        category |-> item.category, owner_id |-> item.owner_id,
                        is_available |-> TRUE]
       IN IF item.owner_id \notin items_fake_users_db
          THEN resp' = UserNotFoundError(item.owner_id) /\ UNCHANGED fake_items_db
          ELSE resp' = Created(new_item) /\ fake_items_db' = Append(fake_items_db, new_item)
    /\ req' = [op |-> "create_item", body |-> item]
    /\ issued' = Issue("items", resp')
    /\ UNCHANGED <<workload, fake_users_db, companies, insiders, transactions>>

update_item(item_id, item_update) ==
    /\ LET item == ById(fake_items_db, item_id)
           updated == ApplyUpdate(Val(item), item_update, {})
       IN IF item = None
          THEN resp' = ItemNotFoundError(item_id) /\ UNCHANGED fake_items_db
          ELSE resp' = Ok(updated) /\ fake_items_db' = Replace(fake_items_db, updated)
    /\ req' = [op |-> "update_item", id |-> item_id, body |-> item_update]
    /\ UNCHANGED <<workload, issued, fake_users_db, companies, insiders, transactions>>

delete_item(item_id) ==
    /\ LET item == ById(fake_items_db, item_id)
       IN IF item = None
          THEN resp' = ItemNotFoundError(item_id) /\ UNCHANGED fake_items_db
          ELSE /\ resp' = Ok([deleted_item_id |-> item_id])
               /\ fake_items_db' = Without(fake_items_db, item_id)
    /\ req' = [op |-> "delete_item", id |-> item_id]
    /\ UNCHANGED <<workload, issued, fake_users_db, companies, insiders, transactions>>

get_items_by_user(user_id, available_only) ==
    /\ LET f0 == SelectSeq(fake_items_db, LAMBDA item : item.owner_id = user_id)
           user_items == IF available_only THEN SelectSeq(f0, LAMBDA item : item.is_available)
                         ELSE f0
       IN resp' = IF user_id \notin items_fake_users_db THEN UserNotFoundError(user_id)
                  ELSE Ok(user_items)
    /\ req' = [op |-> "get_items_by_user", id |-> user_id, available_only |-> available_only]
    /\ UNCHANGED <<workload, issued, stores>>

toggle_item_availability(item_id) ==
    /\ LET item == ById(fake_items_db, item_id)
           toggled == [Val(item) EXCEPT !.is_available = ~Val(item).is_available]
       IN IF item = None
          THEN resp' = ItemNotFoundError(item_id) /\ UNCHANGED fake_items_db
          ELSE resp' = Ok(toggled) /\ fake_items_db' = Replace(fake_items_db, toggled)
    /\ req' = [op |-> "toggle_item_availability", id |-> item_id]
    /\ UNCHANGED <<workload, issued, fake_users_db, companies, insiders, transactions>>

-----------------------------------------------------------------------------
(* The server.                                                             *)

\* the requests one event loop has in flight at most
Requests == 1..MaxInFlight

\* the worker processes, each with one request
Workers == 1..MaxWorkers

NoTask == [state |-> "none", body |-> NoReq, resp |-> NoResp, db |-> 0, beside |-> {}]

\* the response leaves the server; the next request can be served
Deliver ==
    /\ ~Idle
    /\ req' = NoReq
    /\ resp' = NoResp
    /\ UNCHANGED <<workload, issued, stores, tasks, sessions>>

Init ==
    /\ workload \in Workloads
    /\ fake_users_db = InitUsers
    /\ fake_items_db = InitItems
    /\ companies = <<>>
    /\ insiders = <<>>
    /\ transactions = <<>>
    /\ req = NoReq
    /\ resp = NoResp
    /\ issued = [c \in Collections |-> 0]
    /\ tasks = [r \in Requests |-> NoTask]
    /\ sessions = <<>>

\* the client of a workload sends a request when the one before is answered:
\* nothing is in flight
Serving(ws) == Idle /\ workload \in ws /\ UNCHANGED <<tasks, sessions>>

Relational == {"companies", "company_crud", "search", "insiders", "transactions", "bulk",
               "integrity", "stats", "active"}

Next ==
    \/ Serving({"items"}) /\ \E skip \in Skips, limit \in Limits, category \in CategoryFilters,
           min_price \in MinPriceFilters, max_price \in MaxPriceFilters, available_only \in BOOLEAN :
           get_items(skip, limit, category, min_price, max_price, available_only)
    \/ Serving({"items", "catalogue"}) /\ \E item \in ItemInputs : create_item(item)
    \/ Serving({"catalogue"}) /\ \E id \in {2, 6}, u \in ItemUpdates : update_item(id, u)
    \/ Serving({"items"}) /\ \E id \in {1, 2} : delete_item(id)
    \/ Serving({"catalogue"}) /\ \E id \in {2, 6} : get_item(id)
    \/ Serving({"catalogue"}) /\ \E id \in {1, 4} : get_items_by_user(id, FALSE)
    \/ Serving({"items"}) /\ \E id \in {3, 4, 5} : toggle_item_availability(id)
    \/ Serving({"users"}) /\ \E skip \in Skips, limit \in Limits, active_only \in BOOLEAN :
           get_users(skip, limit, active_only)
    \/ Serving({"users", "user_crud", "catalogue"}) /\ \E user \in UserInputs : create_user(user)
    \/ Serving({"user_crud"}) /\ \E id \in {1, 2, 5}, u \in UserUpdates : update_user(id, u)
    \/ Serving({"users"}) /\ \E id \in PathIds : delete_user(id)
    \/ Serving({"catalogue"}) /\ \E id \in {1, 4} : get_user(id)
    \/ Serving({"catalogue"}) /\ \E id \in {1, 4} : delete_user(id)
    \/ Serving({"user_crud"}) /\ \E id \in {3, 4} : delete_user(id)
    \/ Serving({"users"}) /\ \E q \in SearchTerms, limit \in Limits : search_users(q, limit)
    \/ Serving({"companies"}) /\ \E skip \in Skips, limit \in Limits, sector \in SectorFilters,
           exchange \in ExchangeFilters, min_market_cap \in MinCapFilters,
           max_market_cap \in MaxCapFilters, active_only \in BOOLEAN :
           get_companies(skip, limit, sector, exchange, min_market_cap, max_market_cap, active_only)
    \/ Serving(Relational) /\ \E company \in CompanyInputs : create_company(company)
    \/ Serving({"company_crud"}) /\ \E id \in PathIds, u \in CompanyUpdates : update_company(id, u)
    \/ Serving({"company_crud"}) /\ \E id \in PathIds : delete_company(id)
    \/ Serving({"integrity"}) /\ \E id \in {2, 3} : delete_company(id)
    \/ Serving({"company_crud"}) /\ \E id \in {1, 3} : get_company(id)
    \/ Serving({"companies"}) /\ \E id \in PathIds : toggle_company_status(id)
    \/ Serving({"search"}) /\ \E q \in SearchTerms, limit \in Limits : search_companies(q, limit)
    \/ Serving({"search"}) /\ \E q \in SearchTerms, limit \in Limits : search_insiders(q, limit)
    \/ Serving({"insiders"}) /\ \E skip \in Skips, limit \in Limits, active_only \in BOOLEAN :
           get_insiders(skip, limit, active_only)
    \/ Serving({"search", "insiders", "transactions", "bulk", "integrity", "stats", "active"}) /\
           \E insider \in InsiderInputs : create_insider(insider)
    \/ Serving({"insiders"}) /\ \E id \in PathIds : get_insider(id)
    \/ Serving({"insiders"}) /\ \E id \in PathIds, active_only \in BOOLEAN :
           get_insiders_by_company(id, active_only)
    \/ Serving({"integrity"}) /\ \E id \in {1, 3}, u \in InsiderUpdates : update_insider(id, u)
    \/ Serving({"integrity"}) /\ \E id \in {1, 2} : delete_insider(id)
    \/ Serving({"transactions", "bulk", "integrity", "stats", "active"}) /\
           \E transaction \in TransactionInputs : create_transaction(transaction)
    \/ Serving({"integrity"}) /\ \E id \in {1, 3}, u \in TransactionUpdates :
           update_transaction(id, u)
    \/ Serving({"integrity"}) /\ \E id \in {1, 2} : delete_transaction(id)
    \/ Serving({"active"}) /\ \E id \in {1, MaxStats + 1} : get_transaction(id)
    \/ Serving({"transactions"}) /\ \E skip \in Skips, limit \in Limits, f \in TransactionFilters :
           get_transactions(skip, limit, f)
    \/ Serving({"bulk"}) /\ \E skip \in BulkSkips, limit \in BulkLimits :
           get_transactions(skip, limit, [transaction_type |-> Some("buy"), company_id |-> None,
               insider_id |-> None, start_date |-> None, end_date |-> None,
               min_value |-> None, max_value |-> None])
    \/ Serving({"transactions"}) /\ \E id \in PathIds, type \in TypeFilters, limit \in Limits :
           get_transactions_by_insider(id, type, limit)
    \/ Serving({"transactions"}) /\ \E id \in PathIds, type \in TypeFilters, limit \in Limits :
           get_transactions_by_company(id, type, limit)
    \/ Serving({"transactions", "stats"}) /\ \E start_date \in DateFilters, end_date \in DateFilters :
           get_transaction_stats(start_date, end_date)
    \/ Serving({"active"}) /\ \E start_date \in DateFilters :
           get_transaction_stats(start_date, None)
    \/ Deliver

Spec == Init /\ [][Next]_vars

-----------------------------------------------------------------------------
(* Requests in flight.                                                     *)

\* a request arrives: its body is parsed and its task waits to be run
Receive(r, body) ==
    /\ tasks[r].state = "none"
    /\ tasks' = [tasks EXCEPT ![r] = [NoTask EXCEPT !.state = "received", !.body = body]]
    /\ UNCHANGED <<workload, issued, stores, req, resp, sessions>>

\* a task that appends its user without the look-up of the email
RunUnchecked(r) ==
    /\ tasks[r].state = "received"
    /\ LET user == tasks[r].body
           new_user == [id |-> NextId(fake_users_db), name |-> user.name, email |-> user.email,
                        age |-> user.age, is_active |-> TRUE]
       IN /\ resp' = Created(new_user)
          /\ fake_users_db' = Append(fake_users_db, new_user)
          /\ req' = [op |-> "create_user", body |-> user]
          /\ issued' = Issue("users", Created(new_user))
    /\ tasks' = [tasks EXCEPT ![r] =
                    [@ EXCEPT !.state = "answered", !.resp = resp',
                              !.beside = {o \in Requests : tasks[o].state = "received"} \ {r}]]
    /\ UNCHANGED <<workload, fake_items_db, companies, insiders, transactions, sessions>>

\* the event loop runs the task of a create_user request: `async def create_user`
\* has no await, so the look-up of the email, max(...) + 1 and append happen with
\* no other task between them
Run(r) ==
    /\ tasks[r].state = "received"
    /\ create_user(tasks[r].body)
    /\ tasks' = [tasks EXCEPT ![r] =
                    [@ EXCEPT !.state = "answered", !.resp = resp',
                              !.beside = {o \in Requests : tasks[o].state = "received"} \ {r}]]
    /\ UNCHANGED sessions

LoopInit ==
    /\ workload = "loop"
    /\ fake_users_db = InitUsers
    /\ fake_items_db = InitItems
    /\ companies = <<>>
    /\ insiders = <<>>
    /\ transactions = <<>>
    /\ req = NoReq
    /\ resp = NoResp
    /\ issued = [c \in Collections |-> 0]
    /\ tasks = [r \in Requests |-> NoTask]
    /\ sessions = <<>>

LoopNext ==
    \/ \E r \in Requests, user \in UserInputs : Receive(r, user)
    \/ \E r \in Requests : Run(r)

LoopSpec == LoopInit /\ [][LoopNext]_vars

\* database.get_db up to its yield: db = SessionLocal(), a new Session
get_db_enter(r) ==
    /\ tasks[r].state = "received"
    /\ sessions' = Append(sessions, [closed |-> 0])
    /\ tasks' = [tasks EXCEPT ![r] = [@ EXCEPT !.state = "opened", !.db = Len(sessions) + 1]]
    /\ UNCHANGED <<workload, issued, stores, req, resp>>

\* create_company, its look-up of the symbol: one SELECT on the session of the
\* request; a row found raises the 400
create_company_check(r) ==
    /\ tasks[r].state = "opened"
    /\ LET company == tasks[r].body
           existing_company == SelectSeq(companies, LAMBDA c : c.symbol = company.symbol)
       IN tasks' = [tasks EXCEPT ![r] =
                       IF existing_company # <<>>
                       THEN [@ EXCEPT !.state = "raised",
                                      !.resp = Duplicate("Company", company.symbol)]
                       ELSE [@ EXCEPT !.state = "checked"]]
    /\ UNCHANGED <<workload, issued, stores, req, resp, sessions>>

\* the commit without the UNIQUE constraint on the symbol
create_company_commit_unconstrained(r) ==
    /\ tasks[r].state = "checked"
    /\ LET company == tasks[r].body
           db_company == [id |-> NextId(companies), name |-> company.name,
                          symbol |-> company.symbol, sector |-> company.sector,
                          market_cap |-> company.market_cap, exchange |-> company.exchange,
                          is_active |-> TRUE]
       IN /\ companies' = Append(companies, db_company)
          /\ tasks' = [tasks EXCEPT ![r] =
                          [@ EXCEPT !.state = "returned", !.resp = Created(db_company),
                                    !.beside = {o \in Workers : tasks[o].state = "checked"} \ {r}]]
          /\ issued' = Issue("companies", Created(db_company))
    /\ UNCHANGED <<workload, fake_users_db, fake_items_db, insiders, transactions, req, resp,
                   sessions>>

\* create_company, after the look-up: db.add, db.commit (the INSERT, which the
\* UNIQUE constraint on the symbol can refuse with an IntegrityError), refresh
create_company_commit(r) ==
    /\ tasks[r].state = "checked"
    /\ LET company == tasks[r].body
           db_company == [id |-> NextId(companies), name |-> company.name,
                          symbol |-> company.symbol, sector |-> company.sector,
                          market_cap |-> company.market_cap, exchange |-> company.exchange,
                          is_active |-> TRUE]
           added == Append(companies, db_company)
           answer == IF SymbolUnique(added) THEN Created(db_company) ELSE InternalError
       IN /\ companies' = IF SymbolUnique(added) THEN added ELSE companies
          /\ tasks' = [tasks EXCEPT ![r] =
                          [@ EXCEPT !.state = IF SymbolUnique(added) THEN "returned" ELSE "raised",
                                    !.resp = answer,
                                    !.beside = {o \in Workers : tasks[o].state = "checked"} \ {r}]]
          /\ issued' = Issue("companies", answer)
    /\ UNCHANGED <<workload, fake_users_db, fake_items_db, insiders, transactions, req, resp,
                   sessions>>

\* get_db whose close is not in a finally: it runs after a return only
get_db_exit_on_return(r) ==
    /\ tasks[r].state = "returned"
    /\ sessions' = [sessions EXCEPT ![tasks[r].db].closed = @ + 1]
    /\ tasks' = [tasks EXCEPT ![r] = [@ EXCEPT !.state = "closed"]]
    /\ UNCHANGED <<workload, issued, stores, req, resp>>

\* database.get_db after its yield: finally: db.close(), whether the handler
\* returned or raised
get_db_exit(r) ==
    /\ tasks[r].state \in {"returned", "raised"}
    /\ sessions' = [sessions EXCEPT ![tasks[r].db].closed = @ + 1]
    /\ tasks' = [tasks EXCEPT ![r] = [@ EXCEPT !.state = "closed"]]
    /\ UNCHANGED <<workload, issued, stores, req, resp>>

WorkerInit ==
    /\ workload = "workers"
    /\ fake_users_db = InitUsers
    /\ fake_items_db = InitItems
    /\ companies = <<>>
    /\ insiders = <<>>
    /\ transactions = <<>>
    /\ req = NoReq
    /\ resp = NoResp
    /\ issued = [c \in Collections |-> 0]
    /\ tasks = [r \in Workers |-> NoTask]
    /\ sessions = <<>>

\* what the worker of request r does next
Work(r) ==
    \/ get_db_enter(r)
    \/ create_company_check(r)
    \/ create_company_commit(r)
    \/ get_db_exit(r)

WorkerNext ==
    \/ \E r \in Workers, company \in CompanyInputs : Receive(r, company)
    \/ \E r \in Workers : get_db_enter(r)
    \/ \E r \in Workers : create_company_check(r)
    \/ \E r \in Workers : create_company_commit(r)
    \/ \E r \in Workers : get_db_exit(r)

\* a worker that has taken a request runs its handler and the exit of get_db
WorkerSpec == WorkerInit /\ [][WorkerNext]_vars /\ \A r \in Workers : WF_vars(Work(r))

-----------------------------------------------------------------------------
(* What the claims speak of.                                               *)

ListOps == {"get_items", "get_users", "get_companies", "get_insiders", "get_transactions"}

\* the request in req is a list request (its response is in resp)
Listing == req.op \in ListOps

\* the filtered (and, for transactions, ordered) sequence of the list request in req
Queried ==
    CASE req.op = "get_items" ->
            ItemFilter(req.category, req.min_price, req.max_price, req.available_only)
      [] req.op = "get_users" -> UserFilter(req.active_only)
      [] req.op = "get_companies" ->
            CompanyQuery(req.sector, req.exchange, req.min_market_cap, req.max_market_cap,
                         req.active_only)
      [] req.op = "get_insiders" -> InsiderQuery(req.active_only)
      [] req.op = "get_transactions" -> TransactionQuery(req.filters)

Elems(xs) == {xs[i] : i \in 1..Len(xs)}

\* C1: a list response holds exactly the records at positions [skip, skip+limit)
\* of the filtered (and ordered) sequence: min(limit, max(0, total - skip)) of
\* them, none when skip >= total, with status 200 and the total of the whole
\* sequence whatever skip is.
PageIsSlice ==
    Listing =>
        LET q == Queried
            n == Min(req.limit, Max(0, Len(q) - req.skip))
            items == resp.body.items
        IN /\ resp.status = 200
           /\ Len(items) = n
           /\ \A i \in 1..n : items[i] = q[req.skip + i]
           /\ resp.body.total = Len(q)
           /\ (req.skip >= Len(q) => items = <<>>)

\* a request that skips past a non-empty filtered sequence
PageIsSliceWitness ==
    /\ req.op = "get_items"
    /\ resp.body.total > 0
    /\ req.skip >= resp.body.total
    /\ resp.body.items = <<>>
    /\ resp.status = 200

\* C2: pages is ceil(total / limit), the least p with p * limit >= total; with
\* total = 0, pages is 0 and the page is empty.
PagesIsCeiling ==
    Listing =>
        LET pages == resp.body.pages
            total == resp.body.total
        IN /\ pages * req.limit >= total
           /\ (pages - 1) * req.limit < total
           /\ pages = (total + req.limit - 1) \div req.limit
           /\ (total = 0 => pages = 0 /\ resp.body.items = <<>>)

\* a total that limit does not divide: 25 records, 10 per page, 3 pages
PagesIsCeilingWitness ==
    /\ Listing
    /\ resp.body.total = 25
    /\ req.limit = 10
    /\ resp.body.pages = 3

\* C3: total counts every record matching the filter, before paging and whatever
\* skip and limit are; page is skip // limit + 1 and per_page is limit.  With 25
\* matching transactions, skip=20 and limit=10 give 5 items, total 25, page 3 of 3.
TotalAndPage ==
    /\ Listing =>
        /\ resp.body.total = Len(Queried)
        /\ (resp.body.page - 1) * req.limit <= req.skip
        /\ req.skip < resp.body.page * req.limit
        /\ resp.body.per_page = req.limit
    /\ (req.op = "get_transactions" /\ Len(Queried) = 25 /\ req.skip = 20 /\ req.limit = 10) =>
        /\ Len(resp.body.items) = 5
        /\ resp.body.total = 25
        /\ resp.body.page = 3
        /\ resp.body.pages = 3

\* the scenario: 25 matching transactions, skip=20, limit=10
TotalAndPageWitness ==
    /\ req.op = "get_transactions"
    /\ Len(transactions) = 25
    /\ Len(Queried) = 25
    /\ req.skip = 20
    /\ req.limit = 10
    /\ Len(resp.body.items) = 5

TransactionListOps == {"get_transactions", "get_transactions_by_insider", "get_transactions_by_company"}

\* the rows a transaction listing answered with
Listed == IF req.op = "get_transactions" THEN resp.body.items ELSE resp.body

\* the transactions matching the filters of the transaction listing in req
Matching ==
    CASE req.op = "get_transactions" -> Elems(TransactionQuery(req.filters))
      [] req.op = "get_transactions_by_insider" ->
            {t \in Elems(transactions) : /\ t.insider_id = req.id
                                         /\ req.transaction_type \in {None, Some(t.transaction_type)}}
      [] req.op = "get_transactions_by_company" ->
            {t \in Elems(transactions) : /\ t.company_id = req.id
                                         /\ req.transaction_type \in {None, Some(t.transaction_type)}}

\* C4: every page of a transaction listing is non-increasing in transaction_date,
\* and the ordering comes before skip/limit: the first page holds the most recent
\* matching transactions.
NewestFirst ==
    (req.op \in TransactionListOps /\ resp.status = 200) =>
        /\ \A i, j \in 1..Len(Listed) :
              i < j => Listed[i].transaction_date >= Listed[j].transaction_date
        /\ Elems(Listed) \subseteq Matching
        /\ (req.op = "get_transactions" => req.skip > 0) \/
              \A t \in Matching \ Elems(Listed) : \A x \in Elems(Listed) :
                  x.transaction_date >= t.transaction_date

\* a first page of one row, the later of two matching transactions, which was
\* inserted after the earlier one
NewestFirstWitness ==
    /\ req.op = "get_transactions"
    /\ resp.status = 200
    /\ req.skip = 0
    /\ Len(resp.body.items) = 1
    /\ \E t \in Matching : /\ t.transaction_date < resp.body.items[1].transaction_date
                           /\ t.id < resp.body.items[1].id

\* the collection the list request in req reads
Listable ==
    CASE req.op = "get_items" -> fake_items_db
      [] req.op = "get_users" -> fake_users_db
      [] req.op = "get_companies" -> companies
      [] req.op = "get_insiders" -> insiders
      [] req.op = "get_transactions" -> transactions

\* a string filter counts as supplied: when given at all (evenEmpty), or only
\* when given and non-empty
Supplied(o, evenEmpty) == o # None /\ (evenEmpty \/ Val(o) # <<>>)

\* record r satisfies every condition the list request in req supplies
Satisfies(r, evenEmpty) ==
    CASE req.op = "get_items" ->
            /\ Supplied(req.category, evenEmpty) => PyLower(r.category) = PyLower(Val(req.category))
            /\ req.min_price # None => r.price >= Val(req.min_price)
            /\ req.max_price # None => r.price <= Val(req.max_price)
            /\ req.available_only => r.is_available
      [] req.op = "get_users" -> (req.active_only => r.is_active)
      [] req.op = "get_companies" ->
            /\ Supplied(req.sector, evenEmpty) => ilike(r.sector, Val(req.sector))
            /\ req.exchange # None => r.exchange = Val(req.exchange)
            /\ req.min_market_cap # None =>
                  (r.market_cap # None /\ Val(r.market_cap) >= Val(req.min_market_cap))
            /\ req.max_market_cap # None =>
                  (r.market_cap # None /\ Val(r.market_cap) <= Val(req.max_market_cap))
            /\ req.active_only => r.is_active
      [] req.op = "get_insiders" -> (req.active_only => r.is_active)
      [] req.op = "get_transactions" ->
            LET f == req.filters
            IN /\ f.transaction_type # None => r.transaction_type = Val(f.transaction_type)
               /\ f.company_id # None => r.company_id = Val(f.company_id)
               /\ f.insider_id # None => r.insider_id = Val(f.insider_id)
               /\ f.start_date # None => r.transaction_date >= DateAsDateTime(Val(f.start_date))
               /\ f.end_date # None => r.transaction_date <= DateAsDateTime(Val(f.end_date))
               /\ f.min_value # None => r.total_value >= Val(f.min_value)
               /\ f.max_value # None => r.total_value <= Val(f.max_value)

\* C5 as stated: the records a list request selects are those that satisfy every
\* condition whose parameter the request carries, an empty string included.
SelectedIffAllSupplied ==
    Listing => Elems(Queried) = {r \in Elems(Listable) : Satisfies(r, TRUE)}

\* C5, amended: the records a list request selects are those that satisfy every
\* supplied condition, where a string filter given as the empty string supplies
\* none.  The conjunction has no order, so neither has the selected set.
SelectedIffAllNonEmpty ==
    Listing => Elems(Queried) = {r \in Elems(Listable) : Satisfies(r, FALSE)}

\* two conditions supplied, and a record that meets the first but not the second
SelectedIffAllNonEmptyWitness ==
    /\ req.op = "get_items"
    /\ req.min_price # None
    /\ req.max_price # None
    /\ resp.body.total > 0
    /\ \E r \in Elems(fake_items_db) : r.price >= Val(req.min_price) /\ r.price > Val(req.max_price)

FlaggedOps == {"get_items", "get_users", "get_companies", "get_insiders"}

\* the flag of the list request in req, and of a record of its collection
FlagSet == IF req.op = "get_items" THEN req.available_only ELSE req.active_only

Flag(r) == IF req.op = "get_items" THEN r.is_available ELSE r.is_active

\* the list request in req carries no filter other than, perhaps, its flag
NoOtherFilter ==
    CASE req.op = "get_items" -> req.category = None /\ req.min_price = None /\ req.max_price = None
      [] req.op = "get_companies" ->
            /\ req.sector = None /\ req.exchange = None
            /\ req.min_market_cap = None /\ req.max_market_cap = None
      [] req.op = "get_transactions" -> \A k \in DOMAIN req.filters : req.filters[k] = None
      [] OTHER -> TRUE

\* C6: a list request without filters selects the whole collection, records with
\* the flag false included when the flag parameter is absent or false; with the
\* flag set (and nothing else) it selects exactly the records whose flag is true.
AbsentMeansAll ==
    (Listing /\ NoOtherFilter) =>
        IF req.op \in FlaggedOps /\ FlagSet
        THEN /\ Elems(Queried) = {r \in Elems(Listable) : Flag(r) = TRUE}
             /\ resp.body.total = Cardinality({r \in Elems(Listable) : Flag(r) = TRUE})
        ELSE /\ Elems(Queried) = Elems(Listable)
             /\ resp.body.total = Len(Listable)

\* an unflagged listing that returns a record whose flag is false
AbsentMeansAllWitness ==
    /\ req.op = "get_users"
    /\ ~req.active_only
    /\ \E i \in 1..Len(resp.body.items) : ~resp.body.items[i].is_active

RangeOps == {"get_items", "get_companies", "get_transactions"}

\* the bounds of the range filter of the list request in req, and the value
\* of a record they bound
LowerBound ==
    CASE req.op = "get_items" -> req.min_price
      [] req.op = "get_companies" -> req.min_market_cap
      [] req.op = "get_transactions" -> req.filters.min_value

UpperBound ==
    CASE req.op = "get_items" -> req.max_price
      [] req.op = "get_companies" -> req.max_market_cap
      [] req.op = "get_transactions" -> req.filters.max_value

Bounded(r) ==
    CASE req.op = "get_items" -> Some(r.price)
      [] req.op = "get_companies" -> r.market_cap
      [] req.op = "get_transactions" -> Some(r.total_value)

\* what the list request in req selects once its range bounds are taken away
QueriedUnbounded ==
    CASE req.op = "get_items" -> ItemFilter(req.category, None, None, req.available_only)
      [] req.op = "get_companies" ->
            CompanyQuery(req.sector, req.exchange, None, None, req.active_only)
      [] req.op = "get_transactions" ->
            TransactionQuery([req.filters EXCEPT !.min_value = None, !.max_value = None])

\* C7: the numeric range filters are inclusive: of the records the other filters
\* select, those with min <= value <= max for the bounds supplied, 0 included.
RangeInclusive ==
    req.op \in RangeOps =>
        Elems(Queried) =
            {r \in Elems(QueriedUnbounded) :
                /\ LowerBound # None => (Bounded(r) # None /\ Val(LowerBound) <= Val(Bounded(r)))
                /\ UpperBound # None => (Bounded(r) # None /\ Val(Bounded(r)) <= Val(UpperBound))}

\* a listed item whose price is the lower bound, under an upper bound too
RangeInclusiveWitness ==
    /\ req.op = "get_items"
    /\ req.min_price # None
    /\ req.max_price # None
    /\ \E i \in 1..Len(resp.body.items) : resp.body.items[i].price = Val(req.min_price)

\* the calendar day of a datetime
DayOf(dt) == dt \div TicksPerDay

\* transaction t is dated within the days start_date..end_date, both included
WithinDays(t, start_date, end_date) ==
    /\ start_date # None => Val(start_date) <= DayOf(t.transaction_date)
    /\ end_date # None => DayOf(t.transaction_date) <= Val(end_date)

\* C8: the date range of the transaction listing and of the statistics is
\* inclusive at both ends: every transaction dated on start_date or on end_date,
\* at whatever time of day, is selected.
DateRangeInclusive ==
    /\ req.op = "get_transactions" =>
          Elems(Queried) =
              {t \in Elems(TransactionQuery([req.filters EXCEPT !.start_date = None,
                                                                !.end_date = None])) :
                  WithinDays(t, req.filters.start_date, req.filters.end_date)}
    /\ req.op = "get_transaction_stats" =>
          resp.body.total_transactions =
              Cardinality({t \in Elems(transactions) : WithinDays(t, req.start_date, req.end_date)})

\* s contains q, case-insensitively
Contains(s, q) == PyIn(PyLower(q), PyLower(s))

\* C9: a search returns at most limit records; the company search only companies
\* whose name or symbol contains q, the user and insider searches only records
\* whose name contains q, case-insensitively.
SearchContains ==
    /\ req.op \in {"search_companies", "search_users", "search_insiders"} =>
          Len(resp.body) <= req.limit
    /\ req.op = "search_companies" =>
          \A c \in Elems(resp.body) : Contains(c.name, req.q) \/ Contains(c.symbol, req.q)
    /\ req.op \in {"search_users", "search_insiders"} =>
          \A u \in Elems(resp.body) : Contains(u.name, req.q)

\* the company update in req' names a symbol
NamesSymbol == "symbol" \in DOMAIN req'.body /\ req'.body.symbol # None

\* a step that answers a create or an update of a company
DuplicateSymbolRejected ==
    /\ (Idle /\ req'.op = "create_company"
             /\ \E c \in Elems(companies) : c.symbol = req'.body.symbol) =>
          /\ resp' = [status |-> 400,
                      body |-> [error |-> "duplicate", entity |-> "Company",
                                key |-> req'.body.symbol]]
          /\ companies' = companies
    /\ (Idle /\ req'.op = "update_company" /\ req'.id \in Ids(companies) /\ NamesSymbol
             /\ \E c \in Elems(companies) : c.id # req'.id /\ c.symbol = Val(req'.body.symbol)) =>
          /\ resp' = [status |-> 400,
                      body |-> [error |-> "duplicate", entity |-> "Company",
                                key |-> Val(req'.body.symbol)]]
          /\ companies' = companies
    /\ (Idle /\ req'.op = "update_company" /\ NamesSymbol
             /\ \E c \in Elems(companies) : c.id = req'.id /\ c.symbol = Val(req'.body.symbol)) =>
          resp'.status = 200

\* C10: no two companies ever share a symbol; a create with a symbol that exists,
\* and an update to a symbol another company holds, answer 400 naming the symbol
\* and change no record; an update to the company's own symbol is accepted.
SymbolStaysUnique ==
    /\ [](\A i, j \in 1..Len(companies) : companies[i].symbol = companies[j].symbol => i = j)
    /\ [][DuplicateSymbolRejected]_vars

\* the second insert of a symbol, rejected with the symbol named
SymbolStaysUniqueWitness ==
    /\ req.op = "create_company"
    /\ resp.status = 400
    /\ resp.body.key = req.body.symbol
    /\ Len(companies) >= 1

\* the user update in req' names an email
NamesEmail == "email" \in DOMAIN req'.body /\ req'.body.email # None

\* a step that answers a create or an update of a user
DuplicateEmailRejected ==
    /\ (Idle /\ req'.op = "create_user"
             /\ \E u \in Elems(fake_users_db) : u.email = req'.body.email) =>
          /\ resp'.status = 400
          /\ resp'.body = [error |-> "duplicate", entity |-> "User", key |-> req'.body.email]
          /\ fake_users_db' = fake_users_db
    /\ (Idle /\ req'.op = "update_user" /\ req'.id \in Ids(fake_users_db) /\ NamesEmail
             /\ \E u \in Elems(fake_users_db) : u.id # req'.id /\ u.email = Val(req'.body.email)) =>
          /\ resp'.status = 400
          /\ resp'.body = [error |-> "duplicate", entity |-> "User",
                           key |-> Val(req'.body.email)]
          /\ fake_users_db' = fake_users_db

MissingReferenceRejected ==
    /\ (Idle /\ req'.op = "create_transaction" /\ req'.body.insider_id \notin Ids(insiders)) =>
          /\ resp'.status = 404
          /\ resp'.body = [error |-> "not found", entity |-> "Insider",
                           id |-> req'.body.insider_id]
          /\ transactions' = transactions
    /\ (Idle /\ req'.op = "create_transaction" /\ req'.body.insider_id \in Ids(insiders)
             /\ req'.body.company_id \notin Ids(companies)) =>
          /\ resp'.status = 404
          /\ resp'.body = [error |-> "not found", entity |-> "Company",
                           id |-> req'.body.company_id]
          /\ transactions' = transactions
    /\ (Idle /\ req'.op = "create_insider" /\ req'.body.company_id \notin Ids(companies)) =>
          /\ resp'.status = 404
          /\ resp'.body = [error |-> "not found", entity |-> "Company",
                           id |-> req'.body.company_id]
          /\ insiders' = insiders

\* C12: a create of a transaction whose insider or company does not exist, and a
\* create of an insider whose company does not exist, answer NotFound with the
\* kind and the id of what is missing (the insider when both are) and add no
\* record.
MissingReferenceNotFound == [][MissingReferenceRejected]_vars

\* a transaction that references neither an existing insider nor an existing
\* company, rejected for its insider, while the company table is not empty
MissingReferenceNotFoundWitness ==
    /\ req.op = "create_transaction"
    /\ req.body.insider_id \notin Ids(insiders)
    /\ req.body.company_id \notin Ids(companies)
    /\ companies # <<>>
    /\ resp = [status |-> 404,
               body |-> [error |-> "not found", entity |-> "Insider", id |-> req.body.insider_id]]

\* a step that answers a create of an item
OwnerChecked ==
    (Idle /\ req'.op = "create_item" /\ req'.body.owner_id \notin Ids(fake_users_db)) =>
            /\ resp'.status = 404
            /\ resp'.body = [error |-> "not found", entity |-> "User",
                             id |-> req'.body.owner_id]
            /\ fake_items_db' = fake_items_db

\* C13: create_item succeeds only if owner_id is the id of a user that is in the
\* user collection at that moment, whatever users were created and deleted
\* before; otherwise it answers NotFound(User, owner_id) and adds no item.
OwnerMustExist == [][OwnerChecked]_vars

\* a step that answers an update of a transaction
ReferencesChecked ==
    (Idle /\ req'.op = "update_transaction" /\ req'.id \in Ids(transactions)) =>
        LET t == Val(ById(transactions, req'.id))
        IN IF t.insider_id \in Ids(insiders) /\ t.company_id \in Ids(companies)
           THEN resp'.status \in {200, 404}
           ELSE /\ resp'.status = 404
                /\ resp'.body.error = "not found"
                /\ transactions' = transactions

UpdateOps == {"update_company", "update_insider", "update_transaction", "update_user",
              "update_item"}

\* the collection an update writes, and its nullable fields
Updatable(op) ==
    CASE op = "update_company" -> companies
      [] op = "update_insider" -> insiders
      [] op = "update_transaction" -> transactions
      [] op = "update_user" -> fake_users_db
      [] op = "update_item" -> fake_items_db

\* the same collection after the step
UpdatableNext(op) ==
    CASE op = "update_company" -> companies'
      [] op = "update_insider" -> insiders'
      [] op = "update_transaction" -> transactions'
      [] op = "update_user" -> fake_users_db'
      [] op = "update_item" -> fake_items_db'

NullableOf(op) ==
    CASE op = "update_company" -> {"sector", "market_cap"}
      [] op = "update_insider" -> {"title"}
      [] op = "update_transaction" -> {"notes"}
      [] OTHER -> {}

\* the value of field f of a row, as a request would carry it
Carried(row, f, op) == IF f \in NullableOf(op) THEN row[f] ELSE {row[f]}

\* a field counts as supplied: when the request carries it at all (evenNull), or
\* only when it carries it with a value
SuppliedField(body, f, evenNull) == f \in DOMAIN body /\ (evenNull \/ body[f] # None)

\* a step that answers an update with success: in the updated record the
\* supplied fields hold the supplied values and the others their old ones; no
\* other record of any collection changes
PartialUpdateStep(evenNull) ==
    (Idle /\ req'.op \in UpdateOps /\ resp'.status = 200) =>
        LET op == req'.op
            before == Updatable(op)
            after == UpdatableNext(op)
        IN /\ Len(after) = Len(before)
           /\ \A i \in 1..Len(before) :
                 IF before[i].id # req'.id
                 THEN after[i] = before[i]
                 ELSE /\ DOMAIN after[i] = DOMAIN before[i]
                      /\ resp'.body = after[i]
                      /\ \A f \in DOMAIN before[i] :
                            IF SuppliedField(req'.body, f, evenNull)
                            THEN Carried(after[i], f, op) = req'.body[f]
                            ELSE after[i][f] = before[i][f]
           /\ \A o \in UpdateOps \ {op} : UpdatableNext(o) = Updatable(o)

\* C15 as stated: a successful partial update gives every field the request
\* carries the carried value, an explicit null included, and leaves every other
\* field and every other record as it was.
SuppliedFieldsTaken == [][PartialUpdateStep(TRUE)]_vars

\* C15, amended: a successful partial update gives every field the request
\* carries with a value that value; a field carried as null is left as it was,
\* like a field the request does not carry, and so is every other record.
NonNullFieldsTaken == [][PartialUpdateStep(FALSE)]_vars

\* an update that changes the symbol of a company, carries a null sector, and
\* leaves the sector the company had
NonNullFieldsTakenWitness ==
    /\ req.op = "update_company"
    /\ resp.status = 200
    /\ "sector" \in DOMAIN req.body
    /\ req.body.sector = None
    /\ resp.body.sector # None
    /\ resp.body.symbol = <<"C">>
    /\ \E c \in Elems(companies) : c.id # req.id

\* a step that answers a delete with success
NoCascadeStep ==
    /\ (Idle /\ req'.op = "delete_company" /\ resp'.status = 200) =>
          /\ req'.id \in Ids(companies)
          /\ companies' = SelectSeq(companies, LAMBDA c : c.id # req'.id)
          /\ insiders' = insiders
          /\ transactions' = transactions
    /\ (Idle /\ req'.op = "delete_insider" /\ resp'.status = 200) =>
          /\ req'.id \in Ids(insiders)
          /\ insiders' = SelectSeq(insiders, LAMBDA i : i.id # req'.id)
          /\ companies' = companies
          /\ transactions' = transactions
    /\ (Idle /\ req'.op = "delete_user" /\ resp'.status = 200) =>
          /\ req'.id \in Ids(fake_users_db)
          /\ fake_users_db' = SelectSeq(fake_users_db, LAMBDA u : u.id # req'.id)
          /\ fake_items_db' = fake_items_db

\* C16: a successful delete removes the one record and nothing else: after
\* delete_company every insider and transaction is present and unchanged, after
\* delete_insider every transaction, after delete_user every item, those that
\* reference the deleted record included.
DeletesDoNotCascade == [][NoCascadeStep]_vars

\* a company deleted while the insider and the transaction of another company stay
DeletesDoNotCascadeWitness ==
    /\ req.op = "delete_company"
    /\ resp.status = 200
    /\ insiders # <<>>
    /\ transactions # <<>>
    /\ companies # <<>>

\* C17: in every reachable state the insider and the company of every
\* transaction exist, the company of every insider exists, and the owner of
\* every item is a user of the user collection.
ReferentialIntegrity ==
    /\ \A t \in Elems(transactions) :
          t.insider_id \in Ids(insiders) /\ t.company_id \in Ids(companies)
    /\ \A i \in Elems(insiders) : i.company_id \in Ids(companies)
    /\ \A item \in Elems(fake_items_db) : item.owner_id \in Ids(fake_users_db)

\* a step that answers a toggle of an existing company or item: the record
\* after the step, toggled back, is the record before it, and nothing else moved
ToggleStep ==
    /\ (Idle /\ req'.op = "toggle_company_status" /\ req'.id \in Ids(companies)) =>
          LET old == Val(ById(companies, req'.id))
              new == Val(ById(companies', req'.id))
          IN /\ resp' = [status |-> 200, body |-> new]
             /\ new.is_active = ~old.is_active
             /\ [new EXCEPT !.is_active = ~new.is_active] = old
             /\ Len(companies') = Len(companies)
             /\ \A i \in 1..Len(companies) :
                   companies[i].id # req'.id => companies'[i] = companies[i]
             /\ UNCHANGED <<fake_users_db, fake_items_db, insiders, transactions>>
    /\ (Idle /\ req'.op = "toggle_item_availability" /\ req'.id \in Ids(fake_items_db)) =>
          LET old == Val(ById(fake_items_db, req'.id))
              new == Val(ById(fake_items_db', req'.id))
          IN /\ resp' = [status |-> 200, body |-> new]
             /\ new.is_available = ~old.is_available
             /\ [new EXCEPT !.is_available = ~new.is_available] = old
             /\ Len(fake_items_db') = Len(fake_items_db)
             /\ \A i \in 1..Len(fake_items_db) :
                   fake_items_db[i].id # req'.id => fake_items_db'[i] = fake_items_db[i]
             /\ UNCHANGED <<fake_users_db, companies, insiders, transactions>>

\* C18: a toggle of an existing company flips is_active and changes no other
\* field and no other record, so that a second toggle, with no other mutation
\* between, gives back the original record; likewise is_available of an item.
ToggleTwiceRestores == [][ToggleStep]_vars

\* a company, created active and deactivated by one toggle, active again after
\* the next
ToggleTwiceRestoresWitness ==
    /\ req.op = "toggle_company_status"
    /\ resp.status = 200
    /\ resp.body.is_active = TRUE
    /\ Len(companies) = 2

\* the collection a create inserts into
CollectionOf(op) ==
    CASE op = "create_user" -> "users"
      [] op = "create_item" -> "items"
      [] op = "create_company" -> "companies"
      [] op = "create_insider" -> "insiders"
      [] op = "create_transaction" -> "transactions"

\* a step that answers a create with success
IdAboveEarlier ==
    (Idle /\ resp'.status = 201) => resp'.body.id > issued[CollectionOf(req'.op)]

\* C19: the id an insert assigns is strictly greater than the id every earlier
\* insert into the same collection assigned, whatever was deleted between: no
\* id is assigned twice.
IdsIncrease == [][IdAboveEarlier]_vars

\* the sum of total_value over a set of transactions
RECURSIVE TotalOf(_)
TotalOf(S) ==
    IF S = {} THEN 0
    ELSE LET t == CHOOSE x \in S : TRUE IN t.total_value + TotalOf(S \ {t})

\* the transaction set of the statistics request in req
StatsSet == Elems(DateRangeQuery(transactions, req.start_date, req.end_date))

\* C20: over the (optionally date-filtered) transaction set, total_transactions
\* is the number of transactions, total_buy_value and total_sell_value are the
\* sums of total_value over its buys and over its sells, and net_value is their
\* difference; 3 buys of 100 and 1 sell of 50 give 300, 50, 250 and 4.
StatsAreSums ==
    req.op = "get_transaction_stats" =>
        LET buys == {t \in StatsSet : t.transaction_type = "buy"}
            sells == {t \in StatsSet : t.transaction_type = "sell"}
            stats == resp.body
        IN /\ resp.status = 200
           /\ stats.total_transactions = Cardinality(StatsSet)
           /\ stats.total_buy_value = TotalOf(buys)
           /\ stats.total_sell_value = TotalOf(sells)
           /\ stats.net_value = stats.total_buy_value - stats.total_sell_value
           /\ (/\ Cardinality(buys) = 3 /\ \A t \in buys : t.total_value = 100
               /\ Cardinality(sells) = 1 /\ \A t \in sells : t.total_value = 50) =>
                 /\ stats.total_buy_value = 300
                 /\ stats.total_sell_value = 50
                 /\ stats.net_value = 250
                 /\ stats.total_transactions = 4

\* the scenario: statistics over 3 buys of 100 and 1 sell of 50
StatsAreSumsWitness ==
    /\ req.op = "get_transaction_stats"
    /\ Cardinality({t \in StatsSet : t.transaction_type = "buy" /\ t.total_value = 100}) = 3
    /\ Cardinality({t \in StatsSet : t.transaction_type = "sell" /\ t.total_value = 50}) = 1
    /\ resp.body.total_transactions = 4
    /\ resp.body.total_buy_value = 300
    /\ resp.body.total_sell_value = 50
    /\ resp.body.net_value = 250

\* the rows of the statistics request in req, in the order the query gives them
StatsRows == DateRangeQuery(transactions, req.start_date, req.end_date)

\* how many of the rows carry id k in column key, and where the first one is
CountOf(rows, key, k) == Cardinality({i \in 1..Len(rows) : rows[i][key] = k})

FirstOf(rows, key, k) ==
    CHOOSE i \in 1..Len(rows) : rows[i][key] = k /\ \A j \in 1..(i - 1) : rows[j][key] # k

\* k has the largest count, and is met before every other id of that count
Leads(rows, key, k) ==
    /\ \E i \in 1..Len(rows) : rows[i][key] = k
    /\ \A j \in 1..Len(rows) :
          LET o == rows[j][key]
          IN /\ CountOf(rows, key, o) <= CountOf(rows, key, k)
             /\ (o # k /\ CountOf(rows, key, o) = CountOf(rows, key, k)) =>
                    FirstOf(rows, key, k) < FirstOf(rows, key, o)

\* the display name the look-up of id k in a table gives
NameOf(table, k) == IF k \in Ids(table) THEN Some(Val(ById(table, k)).name) ELSE None

\* C21: in the statistics, most_active_insider and most_active_company are the
\* names looked up for an id whose count in the filtered rows is maximal, the id
\* met first in the filtered sequence when several have that count; both are
\* null when no row passes the filter.
MostActiveIsFirstMax ==
    req.op = "get_transaction_stats" =>
        IF StatsRows = <<>>
        THEN resp.body.most_active_insider = None /\ resp.body.most_active_company = None
        ELSE /\ \E k \in {StatsRows[i].insider_id : i \in 1..Len(StatsRows)} :
                   /\ Leads(StatsRows, "insider_id", k)
                   /\ resp.body.most_active_insider = NameOf(insiders, k)
             /\ \E k \in {StatsRows[i].company_id : i \in 1..Len(StatsRows)} :
                   /\ Leads(StatsRows, "company_id", k)
                   /\ resp.body.most_active_company = NameOf(companies, k)

\* two insiders with one transaction each among the filtered rows, the one with
\* the larger id met first and named in the statistics
MostActiveIsFirstMaxWitness ==
    /\ req.op = "get_transaction_stats"
    /\ Len(StatsRows) = 2
    /\ StatsRows[1].insider_id = 2
    /\ StatsRows[2].insider_id = 1
    /\ NameOf(insiders, 1) # NameOf(insiders, 2)
    /\ resp.body.most_active_insider = NameOf(insiders, 2)
    /\ resp.body.most_active_insider # None

\* the kind of record the id of a request names, and the collection of that kind
KindOf(op) ==
    CASE op \in {"get_company", "update_company", "delete_company", "toggle_company_status",
                 "get_transactions_by_company", "get_insiders_by_company"} -> "Company"
      [] op \in {"get_insider", "update_insider", "delete_insider",
                 "get_transactions_by_insider"} -> "Insider"
      [] op \in {"get_transaction", "update_transaction", "delete_transaction"} -> "Transaction"
      [] op \in {"get_user", "update_user", "delete_user", "get_items_by_user"} -> "User"
      [] op \in {"get_item", "update_item", "delete_item", "toggle_item_availability"} -> "Item"
      [] OTHER -> "none"

RecordsOf(kind) ==
    CASE kind = "Company" -> companies
      [] kind = "Insider" -> insiders
      [] kind = "Transaction" -> transactions
      [] kind = "User" -> fake_users_db
      [] kind = "Item" -> fake_items_db

\* a step that answers a request naming a record by id, and a step that answers
\* with a failure
MissingIdStep ==
    /\ (Idle /\ KindOf(req'.op) # "none" /\ req'.id \notin Ids(RecordsOf(KindOf(req'.op)))) =>
          /\ resp'.status = 404
          /\ resp'.body = [error |-> "not found", entity |-> KindOf(req'.op), id |-> req'.id]
          /\ UNCHANGED stores
    /\ (Idle /\ resp'.status >= 400) => UNCHANGED stores

\* C22: a get, update, delete or toggle of an id that is not the id of a record
\* of the expected kind answers 404 NotFound with that kind and id and leaves
\* every collection as it was; any request that fails leaves every collection as
\* it was.
MissingIdNotFound == [][MissingIdStep]_vars

\* the session of a request, once get_db has made it
Opened(r) == tasks[r].db # 0

\* C23: every request that is handled gets a session of its own from get_db, no
\* two requests the same one; the session stays open while the handler runs and
\* is closed exactly once afterwards, eventually, whether the handler returned
\* or raised.
SessionPerRequest ==
    /\ [](\A r \in DOMAIN tasks :
             /\ Opened(r) <=> tasks[r].state \notin {"none", "received"}
             /\ Opened(r) => tasks[r].db \in 1..Len(sessions)
             /\ \A o \in DOMAIN tasks : (Opened(r) /\ o # r) => tasks[o].db # tasks[r].db)
    /\ [](Len(sessions) = Cardinality({r \in DOMAIN tasks : Opened(r)}))
    /\ [](\A r \in DOMAIN tasks :
             Opened(r) => sessions[tasks[r].db].closed = IF tasks[r].state = "closed" THEN 1 ELSE 0)
    /\ \A r \in Workers : Opened(r) ~> (tasks[r].state = "closed" /\ sessions[tasks[r].db].closed = 1)

\* two requests, one answered 201 and one whose commit raised, each with its own
\* session, both sessions closed once
SessionPerRequestWitness ==
    /\ workload = "workers"
    /\ tasks[1].state = "closed"
    /\ tasks[1].resp.status = 500
    /\ tasks[2].state = "closed"
    /\ tasks[2].resp.status = 201
    /\ tasks[1].db # tasks[2].db
    /\ sessions[tasks[1].db].closed = 1
    /\ sessions[tasks[2].db].closed = 1

\* request o had passed the look-up of the symbol request r carries, and had not
\* committed, when r committed
Raced(r, o) == o \in tasks[r].beside /\ tasks[o].body.symbol = tasks[r].body.symbol

Runs(r) == tasks[r].state = "received" /\ tasks'[r].state # "received"

\* C25 as stated: the look-up of create_user and its append are separate steps
\* of a task, the collection being as it was after the look-up, so that the
\* look-up of a second request in flight can run between the two and both
\* append a user of the same id or email.
LookUpThenAppend ==
    [][workload = "loop" => \A r \in DOMAIN tasks : Runs(r) => fake_users_db' = fake_users_db]_vars

\* request o was in flight, not yet run, when request r ran with the same email
Overlapped(r, o) == o \in tasks[r].beside /\ tasks[o].body.email = tasks[r].body.email

\* C25, amended: create_user has no suspension point, so the requests in
\* flight are run one at a time, each on the collection the one before left: no
\* two users share an id or an email, a user answered 201 is in the collection,
\* and of two requests in flight with the same email the one run second is
\* answered with the duplicate-key error.
RunOneAtATime ==
    workload = "loop" =>
        /\ \A i, j \in 1..Len(fake_users_db) :
               (\/ fake_users_db[i].id = fake_users_db[j].id
                \/ fake_users_db[i].email = fake_users_db[j].email) => i = j
        /\ \A r \in DOMAIN tasks :
               (tasks[r].state = "answered" /\ tasks[r].resp.status = 201) =>
                   tasks[r].resp.body \in Elems(fake_users_db)
        /\ \A r, o \in DOMAIN tasks :
               (Overlapped(r, o) /\ tasks[r].resp.status = 201 /\ tasks[o].state = "answered") =>
                   tasks[o].resp = DuplicateEmailError(tasks[o].body.email)

\* two requests in flight together with the same email: the first run is
\* created, the second rejected
RunOneAtATimeWitness ==
    /\ workload = "loop"
    /\ Overlapped(1, 2)
    /\ tasks[1].resp.status = 201
    /\ tasks[2].state = "answered"
    /\ tasks[2].resp.status = 400
    /\ Len(fake_users_db) = Len(InitUsers) + 1

ReadOps ==
    ListOps \cup TransactionListOps \cup
    {"search_companies", "search_users", "search_insiders", "get_transaction_stats",
     "get_insiders_by_company", "get_items_by_user",
     "get_company", "get_insider", "get_transaction", "get_user", "get_item"}

\* what the list request in req is answered with on the collections as they are now
ListAnswer ==
    LET q == Queried
    IN [status |-> 200,
        body |-> [items |-> SubSeq(q, Min(req.skip, Len(q)) + 1, Min(req.skip + req.limit, Len(q))),
                  total |-> Len(q),
                  page |-> (req.skip \div req.limit) + 1,
                  per_page |-> req.limit,
                  pages |-> (Len(q) + req.limit - 1) \div req.limit]]

\* C26: a listing, a search, the statistics and a get change no collection; the
\* answer of a list request is a function of its filters, skip and limit and of
\* the collection, so the same request on the same collection is answered with
\* the same items and metadata.
ReadsChangeNothing ==
    /\ [][(Idle /\ req'.op \in ReadOps) => UNCHANGED stores]_vars
    /\ [](Listing => resp = ListAnswer)

\* a filtered listing of a collection an earlier request changed
ReadsChangeNothingWitness ==
    /\ req.op = "get_items"
    /\ req.category # None
    /\ resp.body.items # <<>>
    /\ resp.body.total < Len(fake_items_db)
    /\ Len(fake_items_db) > Len(InitItems)

\* the page of the filtered sequence q that starts at skip = k * limit
PageAt(q, k, limit) == SubSeq(q, Min(k * limit, Len(q)) + 1, Min(k * limit + limit, Len(q)))

\* the pages 0 .. n-1, one after the other
RECURSIVE PagesUpTo(_, _, _)
PagesUpTo(q, n, limit) ==
    IF n = 0 THEN <<>> ELSE PagesUpTo(q, n - 1, limit) \o PageAt(q, n - 1, limit)

\* C27: for the filter and limit of a list request on an in-memory collection,
\* the pages at skip = 0, limit, 2 * limit, ..., as many as `pages` says, hold no
\* record twice and, one after the other, are the filtered sequence; the page
\* the request asked for is the one the response carries.
PagesPartition ==
    req.op \in {"get_items", "get_users"} =>
        LET q == Queried
            limit == req.limit
            pages == resp.body.pages
        IN /\ PagesUpTo(q, pages, limit) = q
           /\ \A k1, k2 \in 0..(pages - 1) :
                 k1 # k2 => Elems(PageAt(q, k1, limit)) \cap Elems(PageAt(q, k2, limit)) = {}
           /\ \A k \in 0..(pages - 1) :
                 /\ PageAt(q, k, limit) # <<>>
                 /\ req.skip = k * limit => resp.body.items = PageAt(q, k, limit)

\* the second and last page of a filtered listing, shorter than the first
PagesPartitionWitness ==
    /\ req.op = "get_items"
    /\ req.available_only
    /\ req.limit = 2
    /\ req.skip = 2
    /\ resp.body.pages = 2
    /\ Len(resp.body.items) = 1
    /\ resp.body.total < Len(fake_items_db)

\* C28: in every list response page is at least 1, and a response that carries
\* records has page <= pages: a page beyond pages is empty.
PageWithinPages ==
    Listing =>
        /\ req.skip >= 0 /\ req.limit >= 1
        /\ resp.body.page >= 1
        /\ resp.body.items # <<>> => resp.body.page <= resp.body.pages
        /\ resp.body.page > resp.body.pages => resp.body.items = <<>>

\* a request past the last page of a collection that is not empty
PageWithinPagesWitness ==
    /\ req.op = "get_companies"
    /\ resp.body.total > 0
    /\ resp.body.pages >= 1
    /\ resp.body.page > resp.body.pages
    /\ resp.body.items = <<>>

\* a step that answers a create of a user or an item with success
MaxPlusOne ==
    /\ (Idle /\ req'.op = "create_user" /\ resp'.status = 201) =>
          /\ resp'.body.id = IF fake_users_db = <<>> THEN 1
                             ELSE 1 + CHOOSE m \in Ids(fake_users_db) :
                                          \A x \in Ids(fake_users_db) : x <= m
          /\ resp'.body.id \notin Ids(fake_users_db)
    /\ (Idle /\ req'.op = "create_item" /\ resp'.status = 201) =>
          /\ resp'.body.id = IF fake_items_db = <<>> THEN 1
                             ELSE 1 + CHOOSE m \in Ids(fake_items_db) :
                                          \A x \in Ids(fake_items_db) : x <= m
          /\ resp'.body.id \notin Ids(fake_items_db)

\* C29: whatever creates, updates, deletes and toggles were served one after the
\* other, no two users and no two items share an id; a create gives the largest
\* id of the collection plus 1, and 1 when the collection is empty.
IdsStayUnique ==
    /\ [](workload \in Workloads =>
             /\ \A i, j \in 1..Len(fake_users_db) :
                    fake_users_db[i].id = fake_users_db[j].id => i = j
             /\ \A i, j \in 1..Len(fake_items_db) :
                    fake_items_db[i].id = fake_items_db[j].id => i = j)
    /\ [][MaxPlusOne]_vars

\* a user created with id 1 after every user was deleted
IdsStayUniqueWitness ==
    /\ req.op = "create_user"
    /\ resp.status = 201
    /\ resp.body.id = 1
    /\ Len(fake_users_db) = 1

\* a step that answers an update with success: a field the request carries as
\* null holds what it held, and a nullable field that held a value holds one
NullSkippedStep ==
    (Idle /\ req'.op \in UpdateOps /\ resp'.status = 200) =>
        LET op == req'.op
            old == Val(ById(Updatable(op), req'.id))
            new == resp'.body
        IN /\ ById(UpdatableNext(op), req'.id) = {new}
           /\ \A f \in DOMAIN req'.body : req'.body[f] = None => new[f] = old[f]
           /\ \A f \in NullableOf(op) : old[f] # None => new[f] # None

\* C30: an update skips every field it is given as null: the stored value stays,
\* so no update turns an optional field that has a value (a sector, a title,
\* notes) back into null.
NullIsSkipped == [][NullSkippedStep]_vars

\* an update that carries null notes for a transaction that has notes: they stay
NullIsSkippedWitness ==
    /\ req.op = "update_transaction"
    /\ resp.status = 200
    /\ "notes" \in DOMAIN req.body
    /\ req.body.notes = None
    /\ resp.body.notes # None

====
